---- MODULE Spec2Model ----
(***************************************************************************)
(* A model of src/auto-track.js: the AutoTrack extension of the Analytics  *)
(* SDK.  The page is single-threaded: every action below is one run to     *)
(* completion of one piece of code (a call of start(), one timer callback, *)
(* one event listener dispatch).                                           *)
(*                                                                         *)
(* Specifications                                                          *)
(*   Spec        the readiness gate of start() and the wiring of the       *)
(*               trackers, with every kind of browser event;               *)
(*   SpecScroll  the scroll tracker and its debounce timer;                *)
(*   SpecScrollFair  the same under fair timer firing;                     *)
(*   SpecForm    the submit listener over a family of forms;               *)
(*   SpecClick   the click and focus listeners over a family of elements;  *)
(*   SpecPassword  the listeners on pages and forms with password fields;  *)
(*   SpecFault   the listeners when the sink's track() or an element       *)
(*               property read throws;                                     *)
(*   SpecToggle  the wiring under every combination of tracker flags;      *)
(*   SpecFocus   the focus listener over a family of form fields;          *)
(*   SpecPath    getXPath over a family of pages;                          *)
(*   SpecVisibility  the visibility listener and the page clock;           *)
(*   SpecMulti   several calls of start() on one page;                     *)
(*   SpecLength  texts, values and stacks about as long as their limits;   *)
(*   SpecGate    the readiness gate under fair timer firing;               *)
(*   SpecMarker  the climb for the data-ga-id marker;                      *)
(*   SpecDescriptor  the keys of the element descriptor;                   *)
(*   SpecSession  the state the trackers keep between events.              *)
(* In all but SpecMulti the host page calls start() once, as in the usage  *)
(* comment at the head of the source file.                                 *)
(***************************************************************************)
EXTENDS Integers, Sequences, FiniteSets, TLC

VARIABLES
    sink,           \* window.Analytics && window.Analytics.instance
    config,         \* AutoTrack.config
    given,          \* the customConfig of the latest call of start()
    started,        \* number of calls of start() so far
    checkInterval,  \* the setInterval of start() is active
    attempts,       \* the poll counter of start()
    olderIntervals, \* the poll counters of the intervals of earlier start() calls
    initCalls,      \* number of runs of _initializeTracking
    errorLogs,      \* number of console.error diagnostics of the gate
    listeners,      \* event type -> number of listeners AutoTrack registered
    log,            \* every call of window.Analytics.track, in order
    mark,           \* Len(log) before the latest browser event or timer
    dispatched,     \* number of browser events dispatched so far
    uncaught,       \* number of exceptions that left a listener or a timer callback
    caught,         \* number of console.error reports of the click listener
    handlerOrder,   \* the page's own handler ran "before" or "after" the listener, or "alone"
    lastDom,        \* the latest browser event: its type and its target
    scrollTop,      \* window.pageYOffset
    maxScroll,      \* trackScroll: let maxScroll
    scrollTimer,    \* trackScroll: let scrollTimer (a timer id, 0 = undefined)
    tracked,        \* trackScroll: const tracked = new Set()
    timers,         \* the pending setTimeout timers of the scroll listener
    nextTimer,      \* the id the next setTimeout returns
    bursts,         \* number of scroll events that found no timer pending
    computations,   \* number of runs of trackScrollDepth
    trackedFields,  \* trackInputFocus: const trackedFields = new Set()
    hidden,         \* document.hidden
    now,            \* Date.now(), in milliseconds
    ticks,          \* number of times the clock has advanced
    startTime,      \* trackVisibility: let startTime
    loaded,         \* the page's load event has fired
    perfTimer,      \* number of pending setTimeout(..., 0) of the load listener
    perfSupported,  \* window.performance && window.performance.timing
    dom,            \* the document: node -> its properties
    form,           \* the form of the document
    older,          \* the closures of the earlier runs of _initializeTracking
    trackThrows,    \* a call of window.Analytics.track throws
    pageHandler     \* the page's own handlers: "none", "plain" or "stops" (stopPropagation)

gateVars   == <<sink, config, given, started, checkInterval, attempts,
                olderIntervals, initCalls, errorLogs, listeners>>
sinkVars   == <<log, mark, dispatched, lastDom, uncaught, caught, handlerOrder>>
scrollVars == <<scrollTop, maxScroll, scrollTimer, tracked, timers, nextTimer,
                bursts, computations>>
otherVars  == <<trackedFields, hidden, now, ticks, startTime, loaded, perfTimer>>
pageVars   == <<perfSupported, dom, form, trackThrows, pageHandler>>
vars       == <<gateVars, sinkVars, scrollVars, otherVars, pageVars, older>>

(***************************************************************************)
(* Bounds of the model.                                                    *)
(***************************************************************************)
\* browser events dispatched in one run of Spec
MaxEvents == 2

\* scroll events dispatched in one run of SpecScroll
MaxScrolls == 3

\* submit events dispatched in one run of SpecForm
MaxSubmits == 2

\* elements of a form of SpecForm
MaxFields == 3

\* browser events dispatched in one run of SpecClick
MaxInputs == 2

\* browser events dispatched in one run of SpecPassword
MaxPasswordEvents == 2

\* browser events dispatched in one run of SpecFault
MaxFaultEvents == 2

\* browser events dispatched in one run of SpecToggle
MaxToggleEvents == 2

\* focus events dispatched in one run of SpecFocus
MaxFocusEvents == 3

\* clicks dispatched in one run of SpecPath
MaxPathClicks == 2

\* calls of start(), polls of one interval and browser events in one run of
\* SpecMulti
MaxStarts == 2
MaxPolls == 2
MaxMultiEvents == 2

\* browser events in one run of SpecLength, and the number of characters by
\* which its texts, values and stacks fall short of or exceed the limits
MaxLengthEvents == 2
MaxExtra == 1

\* browser events in one run of SpecGate
MaxGateEvents == 1

\* clicks in one run of SpecMarker, and marked nodes of one of its pages
MaxMarkerClicks == 1
MaxMarked == 2

\* clicks in one run of SpecDescriptor
MaxDescriptorClicks == 1

\* browser events and advances of the clock in one run of SpecSession
MaxSessionEvents == 4
MaxSessionTicks == 1

\* visibility changes and advances of the clock in one run of SpecVisibility
MaxVisibilityEvents == 3
MaxTicks == 3

(***************************************************************************)
(* Values.                                                                 *)
(***************************************************************************)
\* undefined / null / a missing attribute
Null == "<null>"

\* JavaScript truthiness of a string-valued property
Truthy(v) == v # Null /\ v # ""

\* a || b
Or(a, b) == IF Truthy(a) THEN a ELSE b

\* Math.round(n / d) for d > 0: the nearest integer, halves rounded up
Round(n, d) == (2 * n + d) \div (2 * d)

\* s repeated n times (one run of the handler per registered listener)
RECURSIVE Times(_, _)
Times(s, n) == IF n <= 0 THEN <<>> ELSE s \o Times(s, n - 1)

(***************************************************************************)
(* AutoTrack.config and start().                                           *)
(***************************************************************************)
DefaultConfig ==
    [ trackClicks |-> TRUE, trackForms |-> TRUE, trackScroll |-> TRUE,
      trackErrors |-> TRUE, trackPerformance |-> TRUE, trackVisibility |-> TRUE,
      captureText |-> TRUE, captureAttributes |-> TRUE, debounceScroll |-> 500 ]

\* { ...base, ...custom }
Merge(base, custom) ==
    [k \in DOMAIN base \cup DOMAIN custom |->
        IF k \in DOMAIN custom THEN custom[k] ELSE base[k]]

maxAttempts == 100

\* the budget test off by one
ExhaustedLate(n) == n > maxAttempts

\* attempts >= maxAttempts
Exhausted(n) == n >= maxAttempts

\* a start() that does not wait for the sink
SinkReadyUnchecked == TRUE

\* window.Analytics && window.Analytics.instance
SinkReady == sink

EventTypes == {"click", "submit", "scroll", "error", "unhandledrejection",
               "visibilitychange", "focus", "load"}

\* a wiring that does not probe window.performance
WiredUnprobed(c) ==
    [t \in EventTypes |->
        CASE t = "load"               -> IF c.trackPerformance THEN 1 ELSE 0
          [] t = "click"              -> IF c.trackClicks THEN 1 ELSE 0
          [] t = "submit"             -> IF c.trackForms THEN 1 ELSE 0
          [] t = "scroll"             -> IF c.trackScroll THEN 1 ELSE 0
          [] t = "error"              -> IF c.trackErrors THEN 1 ELSE 0
          [] t = "unhandledrejection" -> IF c.trackErrors THEN 1 ELSE 0
          [] t = "visibilitychange"   -> IF c.trackVisibility THEN 1 ELSE 0
          [] t = "focus"              -> 1]

\* a wiring that registers the focus listener with the form tracker only
WiredFocusWithForms(c) ==
    [t \in EventTypes |->
        CASE t = "load"               -> IF c.trackPerformance /\ perfSupported
                                         THEN 1 ELSE 0
          [] t = "click"              -> IF c.trackClicks THEN 1 ELSE 0
          [] t = "submit"             -> IF c.trackForms THEN 1 ELSE 0
          [] t = "scroll"             -> IF c.trackScroll THEN 1 ELSE 0
          [] t = "error"              -> IF c.trackErrors THEN 1 ELSE 0
          [] t = "unhandledrejection" -> IF c.trackErrors THEN 1 ELSE 0
          [] t = "visibilitychange"   -> IF c.trackVisibility THEN 1 ELSE 0
          [] t = "focus"              -> IF c.trackForms THEN 1 ELSE 0]

\* a wiring that registers every listener whatever the toggles
WiredAlways(c) == [t \in EventTypes |-> 1]


\* the listeners one run of _initializeTracking adds under configuration c
Wired(c) ==
    [t \in EventTypes |->
        CASE t = "load"               -> IF c.trackPerformance /\ perfSupported
                                         THEN 1 ELSE 0
          [] t = "click"              -> IF c.trackClicks THEN 1 ELSE 0
          [] t = "submit"             -> IF c.trackForms THEN 1 ELSE 0
          [] t = "scroll"             -> IF c.trackScroll THEN 1 ELSE 0
          [] t = "error"              -> IF c.trackErrors THEN 1 ELSE 0
          [] t = "unhandledrejection" -> IF c.trackErrors THEN 1 ELSE 0
          [] t = "visibilitychange"   -> IF c.trackVisibility THEN 1 ELSE 0
          [] t = "focus"              -> 1]

\* the number of listeners of type t that earlier runs registered
RECURSIVE OlderWired(_, _)
OlderWired(t, i) == IF i = 0 THEN 0 ELSE older[i].wired[t] + OlderWired(t, i - 1)

\* the number of listeners of type t that the latest run registered
Wiring(t) == listeners[t] - OlderWired(t, Len(older))

\* the variables the listeners of the latest run close over
Closure ==
    [ wired |-> [t \in EventTypes |-> Wiring(t)], maxScroll |-> maxScroll,
      scrollTimer |-> scrollTimer, tracked |-> tracked,
      trackedFields |-> trackedFields, startTime |-> startTime ]

\* _initializeTracking(), run under the configuration c
InitializeTracking(c) ==
    /\ initCalls' = initCalls + 1
    /\ older' = IF initCalls > 0 THEN Append(older, Closure) ELSE older
    /\ listeners' = [t \in EventTypes |-> listeners[t] + Wired(c)[t]]
    /\ IF c.trackScroll
       THEN /\ maxScroll' = 0
            /\ scrollTimer' = 0
            /\ tracked' = {}
       ELSE UNCHANGED <<maxScroll, scrollTimer, tracked>>
    /\ startTime' = IF c.trackVisibility THEN now ELSE startTime
    /\ trackedFields' = {}

\* start(customConfig)
Start(customConfig) ==
    LET c == Merge(config, customConfig) IN
    /\ started' = started + 1
    /\ config' = c
    /\ given' = customConfig
    /\ IF ~SinkReady
       THEN /\ attempts' = 0
            /\ checkInterval' = TRUE
            /\ olderIntervals' = IF checkInterval THEN Append(olderIntervals, attempts)
                                 ELSE olderIntervals
            /\ UNCHANGED <<initCalls, listeners, maxScroll, scrollTimer, tracked,
                           startTime, trackedFields, older>>
       ELSE /\ InitializeTracking(c)
            /\ UNCHANGED <<attempts, checkInterval, olderIntervals>>
    /\ UNCHANGED <<sink, errorLogs, sinkVars, scrollTop, timers, nextTimer, bursts,
                   computations, hidden, now, ticks, loaded, perfTimer, pageVars>>

\* the callback with the timeout test made before the test of the sink
PollTickTimeoutFirst ==
    /\ checkInterval
    /\ attempts' = attempts + 1
    /\ IF Exhausted(attempts')
       THEN /\ checkInterval' = FALSE
            /\ errorLogs' = errorLogs + 1
            /\ UNCHANGED <<initCalls, listeners, maxScroll, scrollTimer, tracked,
                           startTime, trackedFields, older>>
       ELSE /\ IF SinkReady
               THEN /\ checkInterval' = FALSE
                    /\ InitializeTracking(config)
               ELSE UNCHANGED <<checkInterval, initCalls, listeners, maxScroll,
                                scrollTimer, tracked, startTime, trackedFields, older>>
            /\ UNCHANGED errorLogs
    /\ UNCHANGED <<sink, config, given, started, olderIntervals, sinkVars, scrollTop,
                   timers, nextTimer, bursts, computations, hidden, now, ticks, loaded,
                   perfTimer, pageVars>>

\* the callback without its clearInterval calls
PollTickNoClear ==
    /\ checkInterval
    /\ attempts < maxAttempts + 1
    /\ attempts' = attempts + 1
    /\ IF SinkReady
       THEN /\ InitializeTracking(config)
            /\ UNCHANGED errorLogs
       ELSE /\ IF Exhausted(attempts')
               THEN errorLogs' = errorLogs + 1
               ELSE UNCHANGED errorLogs
            /\ UNCHANGED <<initCalls, listeners, maxScroll, scrollTimer, tracked,
                           startTime, trackedFields, older>>
    /\ UNCHANGED <<sink, config, given, started, checkInterval, olderIntervals,
                   sinkVars, scrollTop, timers, nextTimer, bursts, computations, hidden,
                   now, ticks, loaded, perfTimer, pageVars>>

\* the callback of setInterval(..., 50) in start()
PollTick ==
    /\ checkInterval
    /\ attempts' = attempts + 1
    /\ IF SinkReady
       THEN /\ checkInterval' = FALSE
            /\ InitializeTracking(config)
            /\ UNCHANGED errorLogs
       ELSE /\ IF Exhausted(attempts')
               THEN /\ checkInterval' = FALSE
                    /\ errorLogs' = errorLogs + 1
               ELSE UNCHANGED <<checkInterval, errorLogs>>
            /\ UNCHANGED <<initCalls, listeners, maxScroll, scrollTimer, tracked,
                           startTime, trackedFields, older>>
    /\ UNCHANGED <<sink, config, given, started, olderIntervals, sinkVars, scrollTop,
                   timers, nextTimer, bursts, computations, hidden, now, ticks, loaded,
                   perfTimer, pageVars>>

\* the host page runs Analytics.init(...): the sink becomes available
AnalyticsInit ==
    /\ ~sink
    /\ sink' = TRUE
    /\ UNCHANGED <<config, given, started, checkInterval, attempts, olderIntervals,
                   initCalls, errorLogs, listeners, sinkVars, scrollVars, otherVars,
                   pageVars, older>>

\* s without its i-th element
Remove(s, i) == SubSeq(s, 1, i - 1) \o SubSeq(s, i + 1, Len(s))

\* the callback of the interval of an earlier start() call, the i-th of
\* those still active
OlderPollTick(i) ==
    /\ i \in 1..Len(olderIntervals)
    /\ IF SinkReady
       THEN /\ olderIntervals' = Remove(olderIntervals, i)
            /\ InitializeTracking(config)
            /\ UNCHANGED errorLogs
       ELSE /\ IF Exhausted(olderIntervals[i] + 1)
               THEN /\ olderIntervals' = Remove(olderIntervals, i)
                    /\ errorLogs' = errorLogs + 1
               ELSE /\ olderIntervals' = [olderIntervals EXCEPT ![i] = @ + 1]
                    /\ UNCHANGED errorLogs
            /\ UNCHANGED <<initCalls, listeners, maxScroll, scrollTimer, tracked,
                           startTime, trackedFields, older>>
    /\ UNCHANGED <<sink, config, given, started, checkInterval, attempts, sinkVars,
                   scrollTop, timers, nextTimer, bursts, computations, hidden, now, ticks,
                   loaded, perfTimer, pageVars>>

\* the sink's track starts, or stops, throwing
SinkFault ==
    /\ trackThrows' = ~trackThrows
    /\ UNCHANGED <<gateVars, sinkVars, scrollVars, otherVars, perfSupported, dom, form,
                   pageHandler, older>>

(***************************************************************************)
(* Strings.                                                                *)
(***************************************************************************)
Min(a, b) == IF a <= b THEN a ELSE b

\* a substring that keeps the whole string
SubstringWhole(s, n) == s

\* s.substring(0, n)
Substring(s, n) == SubSeq(s, 1, Min(n, Len(s)))

Whitespace == {" ", "\t", "\n"}

\* s.trimStart(), s.trimEnd(), s.trim()
RECURSIVE TrimStart(_)
TrimStart(s) ==
    IF Len(s) > 0 /\ SubSeq(s, 1, 1) \in Whitespace THEN TrimStart(Tail(s)) ELSE s

RECURSIVE TrimEnd(_)
TrimEnd(s) ==
    IF Len(s) > 0 /\ SubSeq(s, Len(s), Len(s)) \in Whitespace
    THEN TrimEnd(SubSeq(s, 1, Len(s) - 1)) ELSE s

Trim(s) == TrimEnd(TrimStart(s))

\* s.split(' '): the pieces of s between single space characters
RECURSIVE SplitFrom(_, _)
SplitFrom(s, piece) ==
    IF Len(s) = 0 THEN <<piece>>
    ELSE IF SubSeq(s, 1, 1) = " " THEN <<piece>> \o SplitFrom(Tail(s), "")
    ELSE SplitFrom(Tail(s), piece \o SubSeq(s, 1, 1))

Split(s) == SplitFrom(s, "")

\* pieces.filter(c => c)
RECURSIVE FilterTruthy(_)
FilterTruthy(pieces) ==
    IF pieces = <<>> THEN <<>>
    ELSE IF Head(pieces) # "" THEN <<Head(pieces)>> \o FilterTruthy(Tail(pieces))
    ELSE FilterTruthy(Tail(pieces))

\* pieces.join(' ')
RECURSIVE Join(_)
Join(pieces) ==
    IF pieces = <<>> THEN ""
    ELSE IF Len(pieces) = 1 THEN Head(pieces)
    ELSE Head(pieces) \o " " \o Join(Tail(pieces))

\* tagName.toLowerCase(), over the tag names of the model's documents
ToLowerCase(t) ==
    CASE t = "HTML" -> "html"     [] t = "HEAD" -> "head"   [] t = "BODY" -> "body"
      [] t = "DIV" -> "div"       [] t = "SPAN" -> "span"   [] t = "A" -> "a"
      [] t = "BUTTON" -> "button" [] t = "INPUT" -> "input" [] t = "FORM" -> "form"
      [] t = "SECTION" -> "section" [] t = "TEXTAREA" -> "textarea"
      [] t = "SELECT" -> "select"
      [] OTHER -> t

(***************************************************************************)
(* The document: a function from node numbers to the properties of the     *)
(* node.  Node 0 is the document itself, the other nodes are its tree in   *)
(* document order; Probe is the one element whose attributes vary.         *)
(***************************************************************************)
\* className of an SVG element: an SVGAnimatedString, not a string
SVGAnimatedString == "<SVGAnimatedString>"

NoData == [k \in {} |-> ""]

Element(tag, up) ==
    [ nodeType |-> 1, tagName |-> tag, parent |-> up, id |-> "", className |-> "",
      textContent |-> "", dataset |-> NoData, name |-> Null, type |-> Null,
      value |-> Null, role |-> Null, href |-> Null, target |-> Null, form |-> Null ]

Document == [Element(Null, -1) EXCEPT !.nodeType = 9, !.id = Null, !.className = Null]

TextNode(up) == [Element(Null, up) EXCEPT !.nodeType = 3, !.id = Null, !.className = Null]

Probe == 8

Body == 3

Nodes == 0..15

\* the document whose element Probe has the properties pr
Page(pr) ==
    [n \in Nodes |->
        CASE n = 0  -> Document
          [] n = 1  -> Element("HTML", 0)
          [] n = 2  -> Element("HEAD", 1)
          [] n = 3  -> Element("BODY", 1)
          [] n = 4  -> TextNode(3)
          [] n = 5  -> [Element("DIV", 3) EXCEPT !.className = "container",
                                                 !.dataset = [gaId |-> "page"]]
          [] n = 6  -> [Element("SPAN", 5) EXCEPT !.textContent = "  Hello  "]
          [] n = 7  -> [Element("A", 5) EXCEPT !.role = "button",
                                               !.textContent = "Pricing",
                                               !.href = "https://example.com/pricing",
                                               !.target = "_blank", !.name = "",
                                               !.type = ""]
          [] n = 8  -> [pr EXCEPT !.parent = 5]
          [] n = 9  -> [Element("BUTTON", 5) EXCEPT !.id = "cta",
                                                    !.className = "btn primary",
                                                    !.textContent = "Go", !.name = "",
                                                    !.dataset = [action |-> "signup"],
                                                    !.type = "submit", !.value = ""]
          [] n = 10 -> Element("SECTION", 5)
          [] n = 11 -> Element("DIV", 10)
          [] n = 12 -> Element("DIV", 11)
          [] n = 13 -> Element("DIV", 12)
          [] n = 14 -> Element("DIV", 13)
          [] n = 15 -> [Element("SPAN", 14) EXCEPT !.textContent = "deep"]]

\* node.parentNode and node.parentElement in document d (-1 = null)
ParentNode(d, n) == d[n].parent

ParentElement(d, n) ==
    IF ParentNode(d, n) >= 0 /\ d[ParentNode(d, n)].nodeType = 1
    THEN ParentNode(d, n) ELSE -1

\* node.childNodes, in document order
RECURSIVE ChildrenFrom(_, _, _)
ChildrenFrom(d, n, k) ==
    IF k \notin Nodes THEN <<>>
    ELSE (IF d[k].parent = n THEN <<k>> ELSE <<>>) \o ChildrenFrom(d, n, k + 1)

ChildNodes(d, n) == ChildrenFrom(d, n, 1)

(***************************************************************************)
(* getXPath and getElementProps.                                           *)
(***************************************************************************)
\* the value x handed to the next statement (a statement reads what the
\* statements before it have built)
Then(x, Statement(_)) == CHOOSE r \in {Statement(p) : p \in {x}} : TRUE

RECURSIVE getXPath(_, _)

\* a loop that leaves out the path of the parent
RECURSIVE XPathLoopLastOnly(_, _, _, _, _)
XPathLoopLastOnly(d, n, siblings, i, ix) ==
    IF i > Len(siblings) THEN ""
    ELSE IF siblings[i] = n
    THEN "/" \o ToLowerCase(d[n].tagName) \o "[" \o ToString(ix + 1) \o "]"
    ELSE IF d[siblings[i]].nodeType = 1 /\ d[siblings[i]].tagName = d[n].tagName
    THEN XPathLoopLastOnly(d, n, siblings, i + 1, ix + 1)
    ELSE XPathLoopLastOnly(d, n, siblings, i + 1, ix)

\* a loop that counts every element sibling, whatever its tag
RECURSIVE XPathLoopAnyTag(_, _, _, _, _)
XPathLoopAnyTag(d, n, siblings, i, ix) ==
    IF i > Len(siblings) THEN ""
    ELSE IF siblings[i] = n
    THEN (IF ParentNode(d, n) >= 0 THEN getXPath(d, ParentNode(d, n)) ELSE "")
         \o "/" \o ToLowerCase(d[n].tagName) \o "[" \o ToString(ix + 1) \o "]"
    ELSE IF d[siblings[i]].nodeType = 1
    THEN XPathLoopAnyTag(d, n, siblings, i + 1, ix + 1)
    ELSE XPathLoopAnyTag(d, n, siblings, i + 1, ix)

\* the for loop of getXPath in document d from sibling i on, ix same-tag siblings seen
RECURSIVE XPathLoop(_, _, _, _, _)
XPathLoop(d, n, siblings, i, ix) ==
    IF i > Len(siblings) THEN ""
    ELSE IF siblings[i] = n
    THEN (IF ParentNode(d, n) >= 0 THEN getXPath(d, ParentNode(d, n)) ELSE "")
         \o "/" \o ToLowerCase(d[n].tagName) \o "[" \o ToString(ix + 1) \o "]"
    ELSE IF d[siblings[i]].nodeType = 1 /\ d[siblings[i]].tagName = d[n].tagName
    THEN XPathLoop(d, n, siblings, i + 1, ix + 1)
    ELSE XPathLoop(d, n, siblings, i + 1, ix)

\* the path with the test for the body made before the test for an id
getXPathBodyFirst(d, n) ==
    IF n = Body THEN "/html/body"
    ELSE IF Truthy(d[n].id) THEN "//*[@id=\"" \o d[n].id \o "\"]"
    ELSE Then(IF ParentNode(d, n) >= 0 THEN ChildNodes(d, ParentNode(d, n)) ELSE <<>>,
              LAMBDA siblings : XPathLoop(d, n, siblings, 1, 0))

getXPath(d, n) ==
    IF Truthy(d[n].id) THEN "//*[@id=\"" \o d[n].id \o "\"]"
    ELSE IF n = Body THEN "/html/body"
    ELSE Then(IF ParentNode(d, n) >= 0 THEN ChildNodes(d, ParentNode(d, n)) ELSE <<>>,
              LAMBDA siblings : XPathLoop(d, n, siblings, 1, 0))

\* props[k] = v
Put(props, k, v) == [x \in DOMAIN props \cup {k} |-> IF x = k THEN v ELSE props[x]]

\* a climb that looks at one node more
RECURSIVE GaIdLoopDeeper(_, _, _)
GaIdLoopDeeper(d, gaIdElement, maxDepth) ==
    IF gaIdElement < 0 \/ maxDepth < 0 THEN Null
    ELSE IF "gaId" \in DOMAIN d[gaIdElement].dataset
            /\ Truthy(d[gaIdElement].dataset["gaId"])
    THEN d[gaIdElement].dataset["gaId"]
    ELSE Then(ParentElement(d, gaIdElement), LAMBDA up :
             GaIdLoopDeeper(d, up, maxDepth - 1))

\* the while loop of getElementProps: the data-ga-id of n or of an ancestor
RECURSIVE GaIdLoop(_, _, _)
GaIdLoop(d, gaIdElement, maxDepth) ==
    IF gaIdElement < 0 \/ maxDepth <= 0 THEN Null
    ELSE IF "gaId" \in DOMAIN d[gaIdElement].dataset
            /\ Truthy(d[gaIdElement].dataset["gaId"])
    THEN d[gaIdElement].dataset["gaId"]
    ELSE Then(ParentElement(d, gaIdElement), LAMBDA up : GaIdLoop(d, up, maxDepth - 1))

\* a copy of the data attributes under their own names
DataPropsUnprefixed(props, dataset) ==
    [x \in DOMAIN props \cup DOMAIN dataset |->
        IF x \in DOMAIN dataset THEN dataset[x] ELSE props[x]]

\* Object.keys(element.dataset).forEach(key => props[`data_${key}`] = ...)
DataProps(props, dataset) ==
    LET keys == {"data_" \o k : k \in DOMAIN dataset} IN
    [x \in DOMAIN props \cup keys |->
        IF x \in keys THEN dataset[CHOOSE k \in DOMAIN dataset : x = "data_" \o k]
        ELSE props[x]]

\* a descriptor that copies the data attributes whatever the configuration
CapturesDataAlways(c, element) == TRUE

\* this.config.captureAttributes && element.dataset: an element node has a
\* dataset, empty when it has no data attribute
CapturesData(c, element) == c.captureAttributes /\ element.nodeType = 1

\* window.location.pathname
Pathname == "/signup"

\* a descriptor that takes the value of every field
CapturesValueOfAny(element) == Truthy(element.value)

\* element.value && element.type !== 'password'
CapturesValue(element) == Truthy(element.value) /\ element.type # "password"

\* getElementProps(element) in document d under configuration c
getElementProps(d, n, c) ==
    LET element == d[n]
        p0 == [elementType |-> ToLowerCase(element.tagName), page |-> Pathname]
        p1 == Then(p0, LAMBDA p :
                IF Truthy(element.id) THEN Put(p, "elementId", element.id) ELSE p)
        p2 == Then(p1, LAMBDA p :
                IF Truthy(element.className) /\ element.className # SVGAnimatedString
                THEN Put(p, "elementClasses",
                         Join(FilterTruthy(Split(element.className))))
                ELSE p)
        p3 == Then(p2, LAMBDA p :
                IF c.captureText /\ Truthy(element.textContent)
                THEN Put(p, "elementText", Substring(Trim(element.textContent), 100))
                ELSE p)
        p4 == Then(p3, LAMBDA p :
                Then(GaIdLoop(d, n, 5), LAMBDA gaId :
                    IF gaId # Null THEN Put(p, "gaId", gaId) ELSE p))
        p5 == Then(p4, LAMBDA p :
                IF CapturesData(c, element) THEN DataProps(p, element.dataset) ELSE p)
        p6 == Then(p5, LAMBDA p :
                IF Truthy(element.name) THEN Put(p, "elementName", element.name) ELSE p)
        p7 == Then(p6, LAMBDA p :
                IF Truthy(element.type) THEN Put(p, "inputType", element.type) ELSE p)
        p8 == Then(p7, LAMBDA p :
                IF CapturesValue(element)
                THEN Put(p, "elementValue", Substring(element.value, 50))
                ELSE p)
    IN  Then(p8, LAMBDA p : Put(p, "xpath", getXPath(d, n)))

(***************************************************************************)
(* The listeners: the calls of window.Analytics.track one dispatch makes.  *)
(***************************************************************************)
Track(eventName, props) == <<[name |-> eventName, props |-> props]>>

\* the classification with the role test made before the test for an anchor
ClickEventNameRoleFirst(d, n) ==
    LET tagName == ToLowerCase(d[n].tagName) IN
    IF tagName = "button" THEN "button_clicked"
    ELSE IF d[n].role # Null /\ d[n].role = "button" THEN "button_clicked"
    ELSE IF tagName = "a" THEN "link_clicked"
    ELSE "element_clicked"

\* the event name the click listener gives a click on n
ClickEventName(d, n) ==
    LET tagName == ToLowerCase(d[n].tagName) IN
    IF tagName = "button" THEN "button_clicked"
    ELSE IF tagName = "a" THEN "link_clicked"
    ELSE IF d[n].role # Null /\ d[n].role = "button" THEN "button_clicked"
    ELSE "element_clicked"

\* the try block of the click listener throws: element.tagName is
\* undefined, or the call of track throws
ClickThrows(d, n) == d[n].tagName = Null \/ trackThrows

\* the click listener, for a click whose target is n
ClickListener(d, n, c) ==
    IF d[n].tagName = Null
    THEN <<>>   \* element.tagName.toLowerCase() throws, the catch logs it
    ELSE Track(ClickEventName(d, n),
               Then(getElementProps(d, n, c), LAMBDA props :
                   IF ToLowerCase(d[n].tagName) = "a"
                   THEN Then(Put(props, "href", d[n].href), LAMBDA p :
                            Put(p, "target", d[n].target))
                   ELSE props))

\* the loop without its test of field.name
RECURSIVE FormFieldsUnnamed(_)
FormFieldsUnnamed(elements) ==
    IF elements = <<>> THEN <<>>
    ELSE (IF Head(elements).type # "password"
          THEN <<[name |-> Head(elements).name, type |-> Head(elements).type]>>
          ELSE <<>>) \o FormFieldsUnnamed(Tail(elements))

\* the for loop of the submit listener
RECURSIVE FormFields(_)
FormFields(elements) ==
    IF elements = <<>> THEN <<>>
    ELSE (IF Truthy(Head(elements).name) /\ Head(elements).type # "password"
          THEN <<[name |-> Head(elements).name, type |-> Head(elements).type]>>
          ELSE <<>>) \o FormFields(Tail(elements))

\* the submit listener, for the submission of f
SubmitListener(f) ==
    Track("form_submitted",
          [ formId |-> Or(f.id, "unknown"), formName |-> Or(f.name, "unknown"),
            formAction |-> f.action, formMethod |-> f.method,
            fieldCount |-> Len(f.elements), fields |-> FormFields(f.elements) ])

\* the focus listener: the field identifier of n
FieldId(d, n) == Or(Or(d[n].id, d[n].name), "unknown")

\* a focus listener without its trackedFields.has(fieldId) test
FocusTracksAgain(d, n) == d[n].tagName \in {"INPUT", "TEXTAREA", "SELECT"}

FocusTracks(d, n) ==
    /\ d[n].tagName \in {"INPUT", "TEXTAREA", "SELECT"}
    /\ FieldId(d, n) \notin trackedFields

\* the earlier runs whose focus listener tracks a focus on n
OlderFocusing(d, n) ==
    { i \in 1..Len(older) :
        /\ d[n].tagName \in {"INPUT", "TEXTAREA", "SELECT"}
        /\ FieldId(d, n) \notin older[i].trackedFields }

FocusEvent(d, n) ==
    Track("form_field_focused",
          [ fieldId |-> FieldId(d, n), fieldName |-> d[n].name,
            fieldType |-> d[n].type,
            formId |-> IF d[n].form = Null THEN "unknown"
                       ELSE Or(d[n].form, "unknown") ])

FocusListener(d, n) == IF FocusTracks(d, n) THEN FocusEvent(d, n) ELSE <<>>

\* the error listener, for the ErrorEvent e (a property that holds undefined
\* is modelled as an absent key)
ErrorListener(e) ==
    Track("javascript_error",
          IF e.stack = Null
          THEN [ message |-> e.message, filename |-> e.filename, line |-> e.lineno,
                 column |-> e.colno ]
          ELSE [ message |-> e.message, filename |-> e.filename, line |-> e.lineno,
                 column |-> e.colno, stack |-> Substring(e.stack, 500) ])

\* the unhandledrejection listener, for the reason r already in string form
RejectionListener(r) == Track("promise_rejection", [reason |-> r])

\* the visibilitychange listener, document.hidden being h
VisibilityEvent(h, since) ==
    IF h THEN Track("page_hidden", [timeOnPage |-> Round(now - since, 1000)])
    ELSE Track("page_visible", NoData)

VisibilityListener(h) == VisibilityEvent(h, startTime)

\* a listener that never sets its startTime again
VisibilityClockKept(h, since) == since

\* the listener's startTime after the event
VisibilityClock(h, since) == IF h THEN since ELSE now

\* the visibilitychange listeners of the earlier runs, from the i-th on
RECURSIVE OlderVisibility(_, _)
OlderVisibility(i, h) ==
    IF i > Len(older) THEN <<>>
    ELSE Times(VisibilityEvent(h, older[i].startTime), older[i].wired["visibilitychange"])
         \o OlderVisibility(i + 1, h)

\* the deferred callback of the load listener, for the navigation timing t
PerformanceCallback(t) ==
    Track("page_performance",
          IF t.firstPaint > 0
          THEN [ loadTime |-> t.loadEventEnd - t.navigationStart,
                 domReady |-> t.domContentLoadedEventEnd - t.navigationStart,
                 firstPaint |-> t.firstPaint ]
          ELSE [ loadTime |-> t.loadEventEnd - t.navigationStart,
                 domReady |-> t.domContentLoadedEventEnd - t.navigationStart ])

(***************************************************************************)
(* The scroll tracker.                                                     *)
(***************************************************************************)
\* document.documentElement.scrollHeight - window.innerHeight
DocHeight == 40

milestones == <<25, 50, 75, 90, 100>>

\* Math.round((scrollTop / docHeight) * 100)
ScrollPercent(top) == Round(top * 100, DocHeight)

\* the loop without its tracked.has(milestone) test
RECURSIVE MilestoneLoopNoSet(_, _, _)
MilestoneLoopNoSet(i, scrollPercent, seen) ==
    IF i > Len(milestones) THEN <<>>
    ELSE IF scrollPercent >= milestones[i]
    THEN <<milestones[i]>> \o MilestoneLoopNoSet(i + 1, scrollPercent, seen)
    ELSE MilestoneLoopNoSet(i + 1, scrollPercent, seen)

\* the loop with > for >=
RECURSIVE MilestoneLoopStrict(_, _, _)
MilestoneLoopStrict(i, scrollPercent, seen) ==
    IF i > Len(milestones) THEN <<>>
    ELSE IF scrollPercent > milestones[i] /\ milestones[i] \notin seen
    THEN <<milestones[i]>>
         \o MilestoneLoopStrict(i + 1, scrollPercent, seen \cup {milestones[i]})
    ELSE MilestoneLoopStrict(i + 1, scrollPercent, seen)

\* milestones.forEach(...) from milestone i on: the milestones it adds to
\* the set seen, in the order it tracks them
RECURSIVE MilestoneLoop(_, _, _)
MilestoneLoop(i, scrollPercent, seen) ==
    IF i > Len(milestones) THEN <<>>
    ELSE IF scrollPercent >= milestones[i] /\ milestones[i] \notin seen
    THEN <<milestones[i]>> \o MilestoneLoop(i + 1, scrollPercent, seen \cup {milestones[i]})
    ELSE MilestoneLoop(i + 1, scrollPercent, seen)

\* the milestones one run of trackScrollDepth tracks at scroll position top
NewMilestones(top) ==
    IF ScrollPercent(top) > maxScroll
    THEN MilestoneLoop(1, ScrollPercent(top), tracked)
    ELSE <<>>

\* the same for the i-th earlier run
OlderMilestones(i, top) ==
    IF ScrollPercent(top) > older[i].maxScroll
    THEN MilestoneLoop(1, ScrollPercent(top), older[i].tracked)
    ELSE <<>>

\* the milestones the loop adds to the set before it ends: all of ms, or
\* the first one when the call of track throws
Added(ms) ==
    IF trackThrows /\ ms # <<>> THEN {ms[1]} ELSE {ms[i] : i \in 1..Len(ms)}

\* the earlier runs that registered a scroll listener
OlderScrolling == {i \in 1..Len(older) : older[i].wired["scroll"] > 0}

\* the scroll_depth events of a sequence of milestones
RECURSIVE DepthEvents(_)
DepthEvents(ms) ==
    IF ms = <<>> THEN <<>>
    ELSE Track("scroll_depth", [depth |-> Head(ms)]) \o DepthEvents(Tail(ms))

\* a scroll listener that does not cancel the pending timer
ClearTimeoutMissing(pending, id) == pending

\* the timers pending after the scroll listener's clearTimeout(scrollTimer)
ClearTimeout(pending, id) == pending \ {id}

(***************************************************************************)
(* Browser events and timers.  A dispatch runs the listener of every       *)
(* registration of its event type.                                         *)
(***************************************************************************)
\* no listener is registered for the capture phase
UseCaptureNever(type) == FALSE

\* the useCapture argument of the addEventListener call for an event type
UseCapture(type) == type \in {"click", "submit", "focus"}

\* the listener AutoTrack registered for the type is run: a listener on the
\* document sees a click or a submit in the capture phase, or in the
\* bubbling phase unless a handler of the page has stopped the event before;
\* it sees a focus, which does not bubble, in the capture phase only; the
\* other events are dispatched at the object the listener is registered on
Observed(type) ==
    CASE type \in {"click", "submit"} -> UseCapture(type) \/ pageHandler # "stops"
      [] type = "focus"               -> UseCapture(type)
      [] OTHER                        -> TRUE

Dispatch(type, target) ==
    /\ lastDom' = [type |-> type, target |-> target]
    /\ dispatched' = dispatched + 1
    /\ mark' = Len(log)
    /\ handlerOrder' = IF pageHandler = "none" \/ type \notin {"click", "submit", "focus"}
                       THEN "none"
                       ELSE IF ~Observed(type) THEN "alone"
                       ELSE IF UseCapture(type) THEN "after" ELSE "before"

\* n listeners each make the track calls events: the calls reach the sink,
\* or the first call of each listener throws and the exception leaves it
Deliver(events, n) ==
    IF trackThrows /\ events # <<>>
    THEN /\ log' = log
         /\ uncaught' = uncaught + n
    ELSE /\ log' = log \o Times(events, n)
         /\ uncaught' = uncaught

\* the number of listeners of the type that the dispatch runs
Observing(type) == IF Observed(type) THEN listeners[type] ELSE 0

\* a click listener without its try / catch
DomClickNoCatch(n) ==
    /\ Dispatch("click", n)
    /\ IF ClickThrows(dom, n)
       THEN /\ log' = log
            /\ uncaught' = uncaught + Observing("click")
       ELSE /\ log' = log \o Times(ClickListener(dom, n, config), Observing("click"))
            /\ uncaught' = uncaught
    /\ UNCHANGED <<gateVars, caught, scrollVars, otherVars, pageVars, older>>

\* a click on node n
DomClick(n) ==
    /\ Dispatch("click", n)
    /\ IF ClickThrows(dom, n)
       THEN /\ log' = log
            /\ caught' = caught + Observing("click")
       ELSE /\ log' = log \o Times(ClickListener(dom, n, config), Observing("click"))
            /\ caught' = caught
    /\ UNCHANGED <<gateVars, uncaught, scrollVars, otherVars, pageVars, older>>

\* the submission of the form
DomSubmit ==
    /\ Dispatch("submit", 0)
    /\ Deliver(SubmitListener(form), Observing("submit"))
    /\ UNCHANGED <<gateVars, caught, scrollVars, otherVars, pageVars, older>>

\* a scroll of the window to position top: every scroll listener cancels
\* its timer and sets a new one
DomScroll(top) ==
    /\ Dispatch("scroll", top)
    /\ scrollTop' = top
    /\ older' = [i \in 1..Len(older) |->
                    IF i \in OlderScrolling
                    THEN [older[i] EXCEPT !.scrollTimer =
                             nextTimer + Cardinality({j \in OlderScrolling : j < i})]
                    ELSE older[i]]
    /\ LET pending == {id \in timers :
                          \A i \in OlderScrolling :
                              id \in ClearTimeout(timers, older[i].scrollTimer)}
           set     == {older'[i].scrollTimer : i \in OlderScrolling}
           next    == nextTimer + Cardinality(OlderScrolling)
       IN IF Wiring("scroll") > 0
          THEN /\ timers' = ClearTimeout(pending, scrollTimer) \cup set \cup {next}
               /\ scrollTimer' = next
               /\ nextTimer' = next + 1
          ELSE /\ timers' = pending \cup set
               /\ nextTimer' = next
               /\ UNCHANGED scrollTimer
    /\ bursts' = IF listeners["scroll"] > 0 /\ timers = {} THEN bursts + 1 ELSE bursts
    /\ UNCHANGED <<gateVars, log, uncaught, caught, maxScroll, tracked, computations,
                   otherVars, pageVars>>

\* the debounce timer id expires: trackScrollDepth() of the listener that
\* set it
ScrollTimeout(id) ==
    /\ id \in timers
    /\ timers' = timers \ {id}
    /\ lastDom' = [type |-> "timeout", target |-> id]
    /\ mark' = Len(log)
    /\ computations' = computations + 1
    /\ IF \E i \in OlderScrolling : older[i].scrollTimer = id /\ id # scrollTimer
       THEN LET i  == CHOOSE j \in OlderScrolling : older[j].scrollTimer = id
                ms == OlderMilestones(i, scrollTop)
            IN /\ older' = [older EXCEPT
                               ![i].maxScroll = IF ScrollPercent(scrollTop) > @
                                                THEN ScrollPercent(scrollTop) ELSE @,
                               ![i].tracked = @ \cup Added(ms)]
               /\ Deliver(DepthEvents(ms), 1)
               /\ UNCHANGED <<maxScroll, tracked>>
       ELSE /\ maxScroll' = IF ScrollPercent(scrollTop) > maxScroll
                            THEN ScrollPercent(scrollTop) ELSE maxScroll
            /\ tracked' = tracked \cup Added(NewMilestones(scrollTop))
            /\ Deliver(DepthEvents(NewMilestones(scrollTop)), 1)
            /\ UNCHANGED older
    /\ UNCHANGED <<gateVars, dispatched, caught, handlerOrder, scrollTop, scrollTimer, nextTimer,
                   bursts, otherVars, pageVars>>

\* a focus event whose target is node n
DomFocus(n) ==
    /\ Dispatch("focus", n)
    /\ older' = [i \in 1..Len(older) |->
                    IF Observed("focus") /\ i \in OlderFocusing(dom, n)
                    THEN [older[i] EXCEPT !.trackedFields = @ \cup {FieldId(dom, n)}]
                    ELSE older[i]]
    /\ IF Wiring("focus") > 0 /\ Observed("focus")
       THEN /\ Deliver(FocusEvent(dom, n),
                       Cardinality(OlderFocusing(dom, n))
                         + (IF FocusTracks(dom, n) THEN 1 ELSE 0))
            /\ trackedFields' = IF FocusTracks(dom, n)
                                THEN trackedFields \cup {FieldId(dom, n)}
                                ELSE trackedFields
       ELSE UNCHANGED <<log, uncaught, trackedFields>>
    /\ UNCHANGED <<gateVars, caught, scrollVars, hidden, now, ticks, startTime, loaded,
                   perfTimer, pageVars>>

\* an uncaught exception of the page
DomError(e) ==
    /\ Dispatch("error", 0)
    /\ Deliver(ErrorListener(e), listeners["error"])
    /\ UNCHANGED <<gateVars, caught, scrollVars, otherVars, pageVars, older>>

\* an unhandled promise rejection of the page
DomRejection(r) ==
    /\ Dispatch("unhandledrejection", 0)
    /\ Deliver(RejectionListener(r), listeners["unhandledrejection"])
    /\ UNCHANGED <<gateVars, caught, scrollVars, otherVars, pageVars, older>>

\* a visibility listener that keeps its clock in the variable of the scroll
\* tracker's maximum
DomVisibilitySharedClock ==
    /\ Dispatch("visibilitychange", 0)
    /\ hidden' = ~hidden
    /\ older' = [i \in 1..Len(older) |->
                    IF older[i].wired["visibilitychange"] > 0
                    THEN [older[i] EXCEPT !.startTime = VisibilityClock(hidden', @)]
                    ELSE older[i]]
    /\ IF trackThrows
       THEN /\ log' = log
            /\ uncaught' = uncaught + listeners["visibilitychange"]
       ELSE /\ log' = log \o OlderVisibility(1, hidden')
                          \o Times(VisibilityListener(hidden'), Wiring("visibilitychange"))
            /\ uncaught' = uncaught
    /\ maxScroll' = IF Wiring("visibilitychange") > 0
                    THEN VisibilityClock(hidden', maxScroll) ELSE maxScroll
    /\ UNCHANGED <<gateVars, caught, scrollTop, scrollTimer, tracked, timers, nextTimer,
                   bursts, computations, trackedFields, now, ticks, startTime, loaded,
                   perfTimer, pageVars>>

\* the page becomes hidden, or visible again
DomVisibility ==
    /\ Dispatch("visibilitychange", 0)
    /\ hidden' = ~hidden
    /\ older' = [i \in 1..Len(older) |->
                    IF older[i].wired["visibilitychange"] > 0
                    THEN [older[i] EXCEPT !.startTime = VisibilityClock(hidden', @)]
                    ELSE older[i]]
    /\ IF trackThrows
       THEN /\ log' = log
            /\ uncaught' = uncaught + listeners["visibilitychange"]
       ELSE /\ log' = log \o OlderVisibility(1, hidden')
                          \o Times(VisibilityListener(hidden'), Wiring("visibilitychange"))
            /\ uncaught' = uncaught
    /\ startTime' = IF Wiring("visibilitychange") > 0
                    THEN VisibilityClock(hidden', startTime) ELSE startTime
    /\ UNCHANGED <<gateVars, caught, scrollVars, trackedFields, now, ticks, loaded, perfTimer,
                   pageVars>>

\* the load event of the window
DomLoad ==
    /\ ~loaded
    /\ Dispatch("load", 0)
    /\ loaded' = TRUE
    /\ perfTimer' = perfTimer + listeners["load"]
    /\ UNCHANGED <<gateVars, log, uncaught, caught, scrollVars, trackedFields, hidden,
                   now, ticks, startTime, pageVars, older>>

\* one setTimeout(..., 0) of the load listener expires
PerfTimeout(t) ==
    /\ perfTimer > 0
    /\ perfTimer' = perfTimer - 1
    /\ lastDom' = [type |-> "perf", target |-> 0]
    /\ mark' = Len(log)
    /\ Deliver(PerformanceCallback(t), 1)
    /\ UNCHANGED <<gateVars, dispatched, caught, handlerOrder, scrollVars, trackedFields, hidden, now, ticks,
                   startTime, loaded, pageVars, older>>

\* time passes
Tick(ms) ==
    /\ now' = now + ms
    /\ ticks' = ticks + 1
    /\ UNCHANGED <<gateVars, sinkVars, scrollVars, trackedFields, hidden, startTime,
                   loaded, perfTimer, pageVars, older>>

(***************************************************************************)
(* Spec: the readiness gate.  The page loads with the sink absent; the     *)
(* host page calls Analytics.init() and AutoTrack.start() in either order  *)
(* and at any time, while the browser dispatches events.                   *)
(***************************************************************************)
Field(name, type, value) == [name |-> name, type |-> type, value |-> value]

\* the form of Scenario C
SignupForm ==
    [ id |-> "signup", name |-> "", action |-> "https://example.com/signup",
      method |-> "post",
      elements |-> << Field("name", "text", "Ann"), Field("email", "email", "a@b.c"),
                      Field("password", "password", "hunter2") >> ]

EmailInput ==
    [Element("INPUT", 5) EXCEPT !.name = "email", !.type = "email", !.value = "a@b.c",
                                !.form = "signup"]

NoListeners == [t \in EventTypes |-> 0]

InitCommon ==
    /\ config = DefaultConfig
    /\ started = 0
    /\ checkInterval = FALSE
    /\ attempts = 0
    /\ initCalls = 0
    /\ errorLogs = 0
    /\ listeners = NoListeners
    /\ log = <<>>
    /\ mark = 0
    /\ dispatched = 0
    /\ lastDom = [type |-> "none", target |-> 0]
    /\ given = NoData
    /\ olderIntervals = <<>>
    /\ uncaught = 0
    /\ caught = 0
    /\ handlerOrder = "none"
    /\ pageHandler = "none"
    /\ older = <<>>
    /\ trackThrows = FALSE
    /\ scrollTop = 0
    /\ maxScroll = 0
    /\ scrollTimer = 0
    /\ tracked = {}
    /\ timers = {}
    /\ nextTimer = 1
    /\ bursts = 0
    /\ computations = 0
    /\ trackedFields = {}
    /\ hidden = FALSE
    /\ now = 0
    /\ ticks = 0
    /\ startTime = 0
    /\ loaded = FALSE
    /\ perfTimer = 0

Init ==
    /\ InitCommon
    /\ sink = FALSE
    /\ perfSupported \in BOOLEAN
    /\ dom = Page(EmailInput)
    /\ form = SignupForm

\* the configurations the host page passes to start() in Spec
GateConfigs ==
    { NoData,
      [trackClicks |-> FALSE, trackScroll |-> FALSE],
      [trackForms |-> FALSE, trackErrors |-> FALSE, trackVisibility |-> FALSE,
       trackPerformance |-> FALSE] }

SomeError ==
    [message |-> "x is not defined", filename |-> "app.js", lineno |-> 3, colno |-> 7,
     stack |-> "ReferenceError: x is not defined"]

SomeTiming ==
    [navigationStart |-> 1000, domContentLoadedEventEnd |-> 1800,
     loadEventEnd |-> 2200, firstPaint |-> 900]

Next ==
    \/ started = 0 /\ \E c \in GateConfigs : Start(c)
    \/ AnalyticsInit
    \/ PollTick
    \/ dispatched < MaxEvents /\ \E n \in {Probe, 9} : DomClick(n)
    \/ dispatched < MaxEvents /\ DomSubmit
    \/ dispatched < MaxEvents /\ DomScroll(DocHeight)
    \/ \E id \in timers : ScrollTimeout(id)
    \/ dispatched < MaxEvents /\ DomFocus(Probe)
    \/ dispatched < MaxEvents /\ DomError(SomeError)
    \/ dispatched < MaxEvents /\ DomRejection("Error: boom")
    \/ dispatched < MaxEvents /\ DomVisibility
    \/ dispatched < MaxEvents /\ DomLoad
    \/ PerfTimeout(SomeTiming)

Spec == Init /\ [][Next]_vars

(***************************************************************************)
(* SpecScroll: the scroll tracker.  The host page has run Analytics.init() *)
(* before it calls start(), as in the usage comment of the source; the     *)
(* window is then scrolled to and fro and the debounce timer expires at    *)
(* any time after it was set.                                              *)
(***************************************************************************)
InitTracker ==
    /\ InitCommon
    /\ sink = TRUE
    /\ perfSupported = TRUE
    /\ dom = Page(EmailInput)
    /\ form = SignupForm

\* the scroll positions of SpecScroll: 0, 10, 23 (22.5), 25, 60, 88 (87.5),
\* 90, 100 and 105 percent of a document of height 40
ScrollTops == {0, 4, 9, 10, 24, 35, 36, 40, 42}

NextScroll ==
    \/ started = 0 /\ \E c \in {NoData, [debounceScroll |-> 100]} : Start(c)
    \/ dispatched < MaxScrolls /\ \E top \in ScrollTops : DomScroll(top)
    \/ \E id \in timers : ScrollTimeout(id)

SpecScroll == InitTracker /\ [][NextScroll]_vars

\* SpecScrollFair: the same under fair timer firing.  The browser runs the
\* callback of a setTimeout once its delay has passed unless clearTimeout
\* cancelled it: while some debounce timer is pending, one eventually expires.
SpecScrollFair ==
    InitTracker /\ [][NextScroll]_vars /\ WF_vars(\E id \in timers : ScrollTimeout(id))

(***************************************************************************)
(* SpecForm: the submit listener, over a family of forms.                  *)
(***************************************************************************)
FieldKinds ==
    { Field("name", "text", "Ann"), Field("email", "email", "a@b.c"),
      Field("password", "password", "hunter2"), Field("", "text", "x"),
      Field("", "password", "pw"), Field("go", "submit", "Go") }

Forms ==
    { [ id |-> i, name |-> nm, action |-> "https://example.com/signup",
        method |-> "post", elements |-> es ] :
        i \in {"", "signup"}, nm \in {"", "f"},
        es \in UNION {[1..k -> FieldKinds] : k \in 0..MaxFields} }

InitForm ==
    /\ InitCommon
    /\ sink = TRUE
    /\ perfSupported = TRUE
    /\ dom = Page(EmailInput)
    /\ form \in Forms

NextForm ==
    \/ started = 0 /\ \E c \in {NoData, [trackForms |-> FALSE]} : Start(c)
    \/ dispatched < MaxSubmits /\ DomSubmit

SpecForm == InitForm /\ [][NextForm]_vars

(***************************************************************************)
(* SpecClick: the click, focus and submit listeners, over a family of      *)
(* documents that differ in the element Probe.                             *)
(***************************************************************************)
LongValue == "0123456789012345678901234567890123456789012345678901234567890"

\* elements of every tag and role the classification of a click tells apart
ClassProbes ==
    { [Element(t, 5) EXCEPT !.role = r,
                            !.href = IF t \in {"A", "a"} THEN "https://example.com/x"
                                     ELSE Null,
                            !.target = IF t \in {"A", "a"} THEN "" ELSE Null] :
        t \in {"BUTTON", "A", "a", "DIV", "SPAN", "SELECT"},
        r \in {Null, "button", "Button", "link"} }

\* input fields, with and without a password
ValueProbes ==
    { [Element("INPUT", 5) EXCEPT !.type = ty, !.value = v, !.name = nm, !.id = i,
                                  !.form = "signup"] :
        ty \in {"text", "password"}, v \in {"", "hunter2", LongValue},
        nm \in {"", "pw"}, i \in {"", "pwd"} }

\* forms with password fields
PasswordForms ==
    { [SignupForm EXCEPT !.elements = es] :
        es \in { << Field("password", "password", "hunter2") >>,
                 << Field("pin", "password", ""), Field("email", "email", "a@b.c") >>,
                 << Field("email", "email", "a@b.c"), Field("", "password", "pw"),
                    Field("password", "password", "hunter2") >> } }

InitClick ==
    /\ InitCommon
    /\ sink = TRUE
    /\ perfSupported = TRUE
    /\ dom \in {Page(pr) : pr \in ClassProbes \cup ValueProbes}
    /\ form = SignupForm

NextClick ==
    \/ started = 0 /\ \E c \in {NoData, [captureText |-> FALSE, captureAttributes |-> FALSE]} :
         Start(c)
    \* clicks on the probe, the anchor, the button, a deep and a shallow element
    \/ dispatched < MaxInputs /\ \E n \in {Probe, 7, 9, 15, Body} :
         DomClick(n)
    \/ dispatched < MaxInputs /\ \E n \in {Probe, 9} : DomFocus(n)
    \/ dispatched < MaxInputs /\ DomSubmit
    \* the page adds handlers of its own, which may call stopPropagation
    \/ /\ pageHandler = "none"
       /\ pageHandler' \in {"plain", "stops"}
       /\ UNCHANGED <<gateVars, sinkVars, scrollVars, otherVars, perfSupported, dom,
                      form, trackThrows, older>>

SpecClick == InitClick /\ [][NextClick]_vars

(***************************************************************************)
(* SpecPassword: the click, focus and submit listeners on pages and forms  *)
(* with a password field.                                                  *)
(***************************************************************************)
InitPassword ==
    /\ InitCommon
    /\ sink = TRUE
    /\ perfSupported = TRUE
    /\ \/ /\ dom \in {Page(pr) : pr \in {e \in ValueProbes : e.type = "password"}}
          /\ form = SignupForm
       \/ /\ dom = Page(EmailInput)
          /\ form \in PasswordForms

NextPassword ==
    \/ started = 0 /\ \E c \in {NoData, [captureText |-> FALSE, captureAttributes |-> FALSE]} :
         Start(c)
    \* clicks on the field and on the element that contains it
    \/ dispatched < MaxPasswordEvents /\ \E n \in {Probe, 5} : DomClick(n)
    \/ dispatched < MaxPasswordEvents /\ DomFocus(Probe)
    \/ dispatched < MaxPasswordEvents /\ DomSubmit

SpecPassword == InitPassword /\ [][NextPassword]_vars

(***************************************************************************)
(* SpecFault: every tracker wired, with a sink whose track may throw and   *)
(* clicks whose target is not an element.                                  *)
(***************************************************************************)
InitFault ==
    /\ InitCommon
    /\ sink = TRUE
    /\ perfSupported = TRUE
    /\ dom = Page(EmailInput)
    /\ form = SignupForm

NextFault ==
    \/ started = 0 /\ Start(NoData)
    \/ SinkFault
    \/ dispatched < MaxFaultEvents /\ \E n \in {0, Probe, 9} : DomClick(n)
    \/ dispatched < MaxFaultEvents /\ DomSubmit
    \/ dispatched < MaxFaultEvents /\ DomScroll(DocHeight)
    \/ \E id \in timers : ScrollTimeout(id)
    \/ dispatched < MaxFaultEvents /\ DomFocus(Probe)
    \/ dispatched < MaxFaultEvents /\ DomError(SomeError)
    \/ dispatched < MaxFaultEvents /\ DomRejection("Error: boom")
    \/ dispatched < MaxFaultEvents /\ DomVisibility
    \/ dispatched < MaxFaultEvents /\ DomLoad
    \/ PerfTimeout(SomeTiming)

SpecFault == InitFault /\ [][NextFault]_vars

(***************************************************************************)
(* SpecToggle: start() with every combination of the six toggles given as  *)
(* true, given as false or not given, then events of every kind.           *)
(***************************************************************************)
Toggles ==
    {"trackClicks", "trackForms", "trackScroll", "trackErrors", "trackPerformance",
     "trackVisibility"}

ToggleConfigs == UNION {[given_ -> BOOLEAN] : given_ \in SUBSET Toggles}

InitToggle ==
    /\ InitCommon
    /\ sink = TRUE
    /\ perfSupported = TRUE
    /\ dom = Page(EmailInput)
    /\ form = SignupForm

NextToggle ==
    \/ started = 0 /\ \E c \in ToggleConfigs : Start(c)
    \/ dispatched < MaxToggleEvents /\ \E n \in {Probe, 7, 9} : DomClick(n)
    \/ dispatched < MaxToggleEvents /\ DomSubmit
    \/ dispatched < MaxToggleEvents /\ DomScroll(DocHeight)
    \/ \E id \in timers : ScrollTimeout(id)
    \/ dispatched < MaxToggleEvents /\ DomFocus(Probe)
    \/ dispatched < MaxToggleEvents /\ DomError(SomeError)
    \/ dispatched < MaxToggleEvents /\ DomRejection("Error: boom")
    \/ dispatched < MaxToggleEvents /\ DomVisibility
    \/ dispatched < MaxToggleEvents /\ DomLoad
    \/ PerfTimeout(SomeTiming)

SpecToggle == InitToggle /\ [][NextToggle]_vars

(***************************************************************************)
(* SpecFocus: the focus listener, over pages with three form fields (an    *)
(* input, a textarea and a select) with and without id and name.           *)
(***************************************************************************)
\* the id and the name of a field
FieldNames ==
    { [id |-> "", name |-> ""], [id |-> "a", name |-> ""], [id |-> "", name |-> "a"],
      [id |-> "a", name |-> "n"], [id |-> "", name |-> "unknown"] }

FormField(tag, type, f) ==
    [Element(tag, 5) EXCEPT !.id = f.id, !.name = f.name, !.type = type,
                            !.value = "", !.form = "signup"]

\* the probe is an input, node 6 a textarea, node 15 a select
FieldPages ==
    { [Page(FormField("INPUT", "text", f)) EXCEPT
          ![6]  = FormField("TEXTAREA", "textarea", g),
          ![15] = [FormField("SELECT", "select-one", h) EXCEPT !.parent = 14,
                                                                !.form = Null]] :
        f \in FieldNames, g \in FieldNames, h \in FieldNames }

InitFocus ==
    /\ InitCommon
    /\ sink = TRUE
    /\ perfSupported = TRUE
    /\ dom \in FieldPages
    /\ form = SignupForm

NextFocus ==
    \/ started = 0 /\ Start(NoData)
    \* a focus on a field, on the button or on the anchor
    \/ dispatched < MaxFocusEvents /\ \E n \in {Probe, 6, 15, 9, 7} :
         DomFocus(n)

SpecFocus == InitFocus /\ [][NextFocus]_vars

(***************************************************************************)
(* SpecPath: clicks on every element of pages in which one element, at any *)
(* place of the tree or detached from it, has the id "x".                  *)
(***************************************************************************)
Elements == {n \in Nodes : Page(EmailInput)[n].nodeType = 1}

\* the page, the page with the id "x" on element n, and the same with n
\* detached from its parent
PathPages ==
    {Page(EmailInput)}
      \cup {[Page(EmailInput) EXCEPT ![n].id = "x"] : n \in Elements}
      \cup {[Page(EmailInput) EXCEPT ![n].id = "x", ![n].parent = -1] :
               n \in Elements \ {Body}}

\* pages whose element Probe has the tag of a sibling before it, of a
\* sibling after it or of none, the first sibling being an element or a text
\* node and the last a section or a span
SiblingPages ==
    { [Page(Element(t, 5)) EXCEPT ![6] = first, ![10].tagName = last] :
        t \in {"SPAN", "A", "BUTTON", "SECTION", "DIV"},
        first \in {Page(EmailInput)[6], Element("A", 5), TextNode(5)},
        last \in {"SECTION", "SPAN", "A"} }

\* pages with an element without id that has lost its parent
DetachedPages == {[Page(EmailInput) EXCEPT ![n].parent = -1] : n \in {1, 5, 10, 12, 15}}

InitPath ==
    /\ InitCommon
    /\ sink = TRUE
    /\ perfSupported = TRUE
    /\ dom \in PathPages \cup SiblingPages \cup DetachedPages
    /\ form = SignupForm

NextPath ==
    \/ started = 0 /\ Start(NoData)
    \/ dispatched < MaxPathClicks /\ \E n \in Elements :
         dom[n].nodeType = 1 /\ DomClick(n)

SpecPath == InitPath /\ [][NextPath]_vars

(***************************************************************************)
(* SpecVisibility: the visibilitychange listener, with a clock that        *)
(* advances between the events.                                            *)
(***************************************************************************)
\* the advances of the clock, in milliseconds
ClockSteps == {499, 500, 125000}

InitVisibility ==
    /\ InitCommon
    /\ sink = TRUE
    /\ perfSupported = TRUE
    /\ dom = Page(EmailInput)
    /\ form = SignupForm

NextVisibility ==
    \/ started = 0 /\ \E c \in {NoData, [trackVisibility |-> FALSE]} :
         Start(c)
    \/ dispatched < MaxVisibilityEvents /\ DomVisibility
    \/ ticks < MaxTicks /\ \E ms \in ClockSteps : Tick(ms)

SpecVisibility == InitVisibility /\ [][NextVisibility]_vars

(***************************************************************************)
(* SpecMulti: the host page calls start() several times, before or after   *)
(* the sink is available; every call that finds the sink missing polls on  *)
(* its own interval.                                                       *)
(***************************************************************************)
InitMulti ==
    /\ InitCommon
    /\ sink \in BOOLEAN
    /\ perfSupported = TRUE
    /\ dom = Page(EmailInput)
    /\ form = SignupForm

MultiConfigs ==
    { NoData, [captureText |-> FALSE, debounceScroll |-> 100], [trackClicks |-> FALSE] }

NextMulti ==
    \/ started < MaxStarts /\ \E c \in MultiConfigs : Start(c)
    \/ AnalyticsInit
    \/ attempts < MaxPolls /\ PollTick
    \/ \E i \in 1..Len(olderIntervals) :
         olderIntervals[i] < MaxPolls /\ OlderPollTick(i)
    \/ dispatched < MaxMultiEvents /\ DomClick(9)
    \/ dispatched < MaxMultiEvents /\ DomSubmit
    \/ dispatched < MaxMultiEvents /\ DomFocus(Probe)
    \/ dispatched < MaxMultiEvents /\ DomVisibility
    \/ dispatched < MaxMultiEvents /\ DomScroll(DocHeight)
    \/ \E id \in timers : ScrollTimeout(id)

SpecMulti == InitMulti /\ [][NextMulti]_vars

(***************************************************************************)
(* SpecLength: clicks on elements whose text and value are about as long   *)
(* as the limits of getElementProps, and errors whose stack is about as    *)
(* long as the limit of the error listener.                                *)
(***************************************************************************)
\* a string of n characters c
RECURSIVE Repeat(_, _)
Repeat(c, n) ==
    IF n <= 0 THEN ""
    ELSE IF n % 2 = 1 THEN c \o Repeat(c, n - 1)
    ELSE Repeat(c \o c, n \div 2)

\* the strings of about n characters
About(c, n) == {Repeat(c, k) : k \in (n - MaxExtra)..(n + MaxExtra)}

\* text areas with a text and a value, the text also within white space
LengthProbes ==
    { [Element("TEXTAREA", 5) EXCEPT !.type = "textarea", !.name = "note",
                                     !.textContent = t, !.value = v] :
        t \in About("x", 100) \cup {"  " \o s \o " \n" : s \in About("x", 100)}
              \cup {"", Repeat("x", 99) \o " yz"},
        v \in About("v", 50) \cup {""} }

\* error events; the line number of each is the length of its stack
LengthErrors ==
    { [SomeError EXCEPT !.stack = s, !.lineno = Len(s)] : s \in About("s", 500) }
    \cup { [SomeError EXCEPT !.stack = Null, !.lineno = 0] }

InitLength ==
    /\ InitCommon
    /\ sink = TRUE
    /\ perfSupported = TRUE
    /\ dom \in {Page(pr) : pr \in LengthProbes}
    /\ form = SignupForm

NextLength ==
    \/ started = 0 /\ Start(NoData)
    \/ dispatched < MaxLengthEvents /\ \E n \in {Probe, 9} : DomClick(n)
    \/ dispatched < MaxLengthEvents /\ DomFocus(Probe)
    \/ dispatched < MaxLengthEvents /\ \E e \in LengthErrors : DomError(e)

SpecLength == InitLength /\ [][NextLength]_vars

(***************************************************************************)
(* SpecGate: the readiness gate under fair timer firing.  While the        *)
(* interval of start() is active the browser keeps calling its callback:   *)
(* a callback that stays enabled is eventually run.                        *)
(***************************************************************************)
NextGate ==
    \/ started = 0 /\ \E c \in GateConfigs : Start(c)
    \/ AnalyticsInit
    \/ PollTick
    \/ dispatched < MaxGateEvents /\ \E n \in {Probe, 9} : DomClick(n)

SpecGate == Init /\ [][NextGate]_vars /\ WF_vars(PollTick)

(***************************************************************************)
(* SpecMarker: clicks on pages that carry the data-ga-id marker on some    *)
(* nodes of the chain from the deepest element to the root, one marker     *)
(* possibly empty.                                                         *)
(***************************************************************************)
\* the deepest element and its ancestors
Chain == {1, Body, 5, 10, 11, 12, 13, 14, 15}

\* the element el with data-ga-id="v", and without the attribute (v = Null)
Marked(el, v) ==
    [el EXCEPT !.dataset =
        [k \in (DOMAIN el.dataset \ {"gaId"}) \cup (IF v = Null THEN {} ELSE {"gaId"}) |->
            IF k = "gaId" THEN v ELSE el.dataset[k]]]

\* the pages with the marker "ga<n>" on the nodes n of a set and an empty
\* marker on at most one other node
MarkerPages ==
    { [n \in Nodes |->
        Marked(Page(EmailInput)[n],
               IF n \in M THEN "ga" \o ToString(n) ELSE IF n = e THEN "" ELSE Null)] :
        M \in {S \in SUBSET Chain : Cardinality(S) <= MaxMarked},
        e \in Chain \cup {0} }

InitMarker ==
    /\ InitCommon
    /\ sink = TRUE
    /\ perfSupported = TRUE
    /\ dom \in MarkerPages
    /\ form = SignupForm

NextMarker ==
    \/ started = 0 /\ \E c \in {NoData, [captureAttributes |-> FALSE]} : Start(c)
    \/ dispatched < MaxMarkerClicks /\ \E n \in {15, 13, 10, Probe, 9, Body, 1} :
         DomClick(n)

SpecMarker == InitMarker /\ [][NextMarker]_vars

(***************************************************************************)
(* SpecDescriptor: clicks on an element whose class attribute, id, name,   *)
(* type, value and data attributes vary.                                   *)
(***************************************************************************)
\* class attributes: none, one and two names, spaces around and between
\* the names, white space only, a tab and a line break between names; and
\* the className of an SVG element
ClassNames ==
    { "", "btn", "btn primary", " btn  primary ", "   ", "btn\tprimary",
      "\n btn", SVGAnimatedString }

ClassVariants ==
    { [Element(t, 5) EXCEPT !.className = cls] : t \in {"DIV", "BUTTON"}, cls \in ClassNames }

\* elements with and without an id, a name, a type, a value and data
\* attributes, among them data attributes named like keys of the descriptor
KeyVariants ==
    { [Element(t, 5) EXCEPT !.id = i, !.name = nm, !.type = ty, !.value = v,
                            !.dataset = ds,
                            !.href = IF t = "A" THEN "https://example.com/x" ELSE Null,
                            !.target = IF t = "A" THEN "_self" ELSE Null] :
        t \in {"INPUT", "A"}, i \in {"", "x"}, nm \in {Null, "", "email"},
        ty \in {Null, "", "text", "password"}, v \in {Null, "", "secret"},
        ds \in { NoData, [elementType |-> "fake", inputType |-> "fake"],
                 [type |-> "data"] } }

InitDescriptor ==
    /\ InitCommon
    /\ sink = TRUE
    /\ perfSupported = TRUE
    /\ dom \in {Page(pr) : pr \in ClassVariants \cup KeyVariants}
    /\ form = SignupForm

NextDescriptor ==
    \/ started = 0 /\ \E c \in {NoData, [captureText |-> FALSE]} : Start(c)
    \/ dispatched < MaxDescriptorClicks /\ DomClick(Probe)

SpecDescriptor == InitDescriptor /\ [][NextDescriptor]_vars

(***************************************************************************)
(* SpecSession: the state the trackers keep between events.  All trackers  *)
(* are wired; the browser dispatches events of every kind, the timers      *)
(* expire and the clock advances.                                          *)
(***************************************************************************)
NextSession ==
    \/ started = 0 /\ Start(NoData)
    \/ dispatched < MaxSessionEvents /\ DomClick(9)
    \/ dispatched < MaxSessionEvents /\ DomSubmit
    \/ dispatched < MaxSessionEvents /\ \E top \in {10, DocHeight} : DomScroll(top)
    \/ \E id \in timers : ScrollTimeout(id)
    \/ dispatched < MaxSessionEvents /\ DomFocus(Probe)
    \/ dispatched < MaxSessionEvents /\ DomError(SomeError)
    \/ dispatched < MaxSessionEvents /\ DomRejection("Error: boom")
    \/ dispatched < MaxSessionEvents /\ DomVisibility
    \/ dispatched < MaxSessionEvents /\ DomLoad
    \/ PerfTimeout(SomeTiming)
    \/ ticks < MaxSessionTicks /\ Tick(500)

SpecSession == InitTracker /\ [][NextSession]_vars

(***************************************************************************)
(* The readiness gate: properties of Spec.                                 *)
(***************************************************************************)
\* the states of the gate
Idle     == started = 0
Polling  == checkInterval
Ready    == initCalls > 0
TimedOut == started > 0 /\ ~checkInterval /\ initCalls = 0

\* the listeners a successful gate leaves registered, tracker by tracker
EnabledOnce ==
    /\ listeners["click"]  = IF config.trackClicks THEN 1 ELSE 0
    /\ listeners["submit"] = IF config.trackForms THEN 1 ELSE 0
    /\ listeners["scroll"] = IF config.trackScroll THEN 1 ELSE 0
    /\ listeners["error"]  = IF config.trackErrors THEN 1 ELSE 0
    /\ listeners["unhandledrejection"] = IF config.trackErrors THEN 1 ELSE 0
    /\ listeners["visibilitychange"] = IF config.trackVisibility THEN 1 ELSE 0
    /\ listeners["load"]   = IF config.trackPerformance /\ perfSupported THEN 1 ELSE 0
    /\ listeners["focus"]  = 1

\* C1: a listener is registered or a track call is made only after a gate
\* check (in start() or in a poll) has seen the sink present; while the gate
\* polls, no listener is registered and the browser's events make no track
\* call.
GateSafety ==
    /\ (listeners # NoListeners \/ Len(log) > 0) => (sink /\ Ready)
    /\ Polling => (listeners = NoListeners /\ Len(log) = 0)
    /\ Idle => (listeners = NoListeners /\ Len(log) = 0)

\* the gate polls and the browser has dispatched a click
GateSafetyWitness ==
    /\ Polling
    /\ lastDom.type = "click"
    /\ Len(log) = 0

\* C2: when the sink is absent at start() and at each of the 100 polls,
\* the gate stops with one diagnostic, and from then on no listener is
\* registered and no track call is made, whatever events follow and even
\* if the sink appears afterwards.
ReadinessTimeout ==
    /\ Polling => (attempts < maxAttempts /\ errorLogs = 0)
    /\ TimedOut => /\ attempts = maxAttempts
                   /\ errorLogs = 1
                   /\ listeners = NoListeners
                   /\ Len(log) = 0
    /\ errorLogs > 0 => TimedOut

\* the gate has timed out, the sink appeared afterwards, events followed
ReadinessTimeoutWitness ==
    /\ TimedOut
    /\ sink
    /\ dispatched = MaxEvents

\* C3: _initializeTracking runs at most once; when it has run, the polling
\* has stopped (no later poll runs it again) and the trackers the
\* configuration enables are registered once each.
SingleInitialization ==
    /\ initCalls <= 1
    /\ Ready => (~Polling /\ EnabledOnce)

\* the gate succeeded in a poll, with a configuration that disables trackers
SingleInitializationWitness ==
    /\ Ready
    /\ attempts > 0
    /\ ~config.trackClicks
    /\ dispatched > 0

\* C4: a poll that finds the sink present (whichever of the 100 it is) runs
\* the initialization, registers the enabled trackers and stops the polling;
\* no diagnostic is reported before or after it.
PollSuccess ==
    /\ [](Ready => errorLogs = 0)
    /\ [][(Polling /\ sink /\ attempts' # attempts)
            => /\ attempts' <= maxAttempts
               /\ initCalls' = 1
               /\ ~checkInterval'
               /\ EnabledOnce'
               /\ errorLogs' = 0]_vars

\* the sink appeared just before the last poll, which initialized tracking
PollSuccessWitness ==
    /\ Ready
    /\ attempts = maxAttempts

(***************************************************************************)
(* The scroll tracker: properties of SpecScroll.                           *)
(***************************************************************************)
MilestoneSet == {25, 50, 75, 90, 100}

\* the positions in the log of the scroll_depth events of milestone m
Emissions(m) == {i \in 1..Len(log) : log[i].name = "scroll_depth" /\ log[i].props.depth = m}

\* the milestones emitted so far
Emitted == {m \in MilestoneSet : Emissions(m) # {}}

\* the track calls of the latest dispatch or timer
Latest == SubSeq(log, mark + 1, Len(log))

\* the elements of a set of numbers in ascending order
RECURSIVE Ascending(_)
Ascending(S) ==
    IF S = {} THEN <<>>
    ELSE LET least == CHOOSE m \in S : \A k \in S : m <= k IN
         <<least>> \o Ascending(S \ {least})

\* C5: whatever the scroll events, positions and timer expiries, each
\* milestone is emitted at most once, only milestones are emitted, and the
\* Milestone Set only grows.
MilestoneOnce ==
    /\ [](\A m \in MilestoneSet : Cardinality(Emissions(m)) <= 1)
    /\ [](\A i \in 1..Len(log) : log[i].props.depth \in MilestoneSet)
    /\ [](tracked = Emitted)
    /\ [][tracked \subseteq tracked']_vars

\* the page was scrolled down, back up and down again, with a depth
\* computation after each move
MilestoneOnceWitness ==
    /\ computations = MaxScrolls
    /\ Emitted = {25, 50}
    /\ maxScroll = 60
    /\ scrollTop = 24
    /\ mark = Len(log)

\* C6: a depth computation whose percent p exceeds the running maximum
\* emits, in that one step, exactly the milestones m <= p not emitted
\* before, in ascending order.
MilestoneJump ==
    [][(computations' # computations /\ ScrollPercent(scrollTop) > maxScroll)
         => SubSeq(log', Len(log) + 1, Len(log'))
              = DepthEvents(Ascending({m \in MilestoneSet :
                                m <= ScrollPercent(scrollTop) /\ m \notin Emitted}))]_vars

\* Scenario B: the first depth computation finds the page at 60 percent
MilestoneJumpWitness ==
    /\ lastDom.type = "timeout"
    /\ computations = 1
    /\ ScrollPercent(scrollTop) = 60
    /\ mark = 0
    /\ log = DepthEvents(<<25, 50>>)

\* C7: a scroll event cancels the pending timer and sets a new one, so at
\* most one timer is pending (the one of the latest scroll event), only
\* that timer ever expires, and a burst of scroll events that each arrive
\* before the timer expires leads to at most one depth computation.
ScrollDebounce ==
    /\ [](Cardinality(timers) <= 1 /\ timers \subseteq {scrollTimer})
    /\ [](computations + Cardinality(timers) = bursts)
    /\ [][(dispatched' # dispatched /\ listeners["scroll"] > 0)
            => (scrollTimer' \notin timers /\ timers' = {scrollTimer'})]_vars
    /\ [][computations' # computations
            => (lastDom'.target = scrollTimer /\ timers' = {})]_vars

\* a burst of all the scroll events of the run, then one depth computation
ScrollDebounceWitness ==
    /\ dispatched = MaxScrolls
    /\ bursts = 1
    /\ computations = 1

\* the milestones a scroll percent has reached
Reached(percent) == {m \in MilestoneSet : m <= percent}

\* C32: the running maximum of the scroll percent never decreases; after
\* every depth computation the milestones emitted so far, and the set the
\* tracker keeps, are exactly the milestones not above the running maximum;
\* a depth computation whose percent does not exceed the running maximum
\* emits nothing and changes neither the maximum nor the set.
ScrollState ==
    /\ [][maxScroll' >= maxScroll]_vars
    /\ [][computations' # computations
            => /\ Emitted' = Reached(maxScroll')
               /\ tracked' = Reached(maxScroll')]_vars
    /\ [][(computations' # computations /\ ScrollPercent(scrollTop) <= maxScroll)
            => /\ log' = log
               /\ UNCHANGED <<maxScroll, tracked>>]_vars

\* the page was scrolled to 60 percent and back up to 25 percent, with a
\* depth computation after each move: the second one emitted nothing
ScrollStateWitness ==
    /\ lastDom.type = "timeout"
    /\ computations = 2
    /\ maxScroll = 60
    /\ ScrollPercent(scrollTop) = 25
    /\ Emitted = {25, 50}
    /\ mark = Len(log)

\* C33: once a scroll event has set the debounce timer, a timer eventually
\* expires with no other pending, and from the event to that point exactly
\* one depth computation runs: it runs on the scroll position of the latest
\* scroll event, so that every milestone this position has reached has
\* been emitted.
DebounceLiveness ==
    /\ \A k \in 0..MaxScrolls :
         (timers # {} /\ computations = k)
           ~> /\ timers = {}
              /\ computations = k + 1
              /\ lastDom = [type |-> "timeout", target |-> scrollTimer]
              /\ Reached(ScrollPercent(scrollTop)) \subseteq Emitted
    /\ [][computations' # computations
            => /\ computations' = computations + 1
               /\ scrollTop' = scrollTop
               /\ timers' = {}]_vars

\* a burst of scroll events that ended at 90 percent, then the one depth
\* computation, which emitted the four milestones reached
DebounceLivenessWitness ==
    /\ dispatched = MaxScrolls
    /\ timers = {}
    /\ computations = 1
    /\ scrollTop = 36
    /\ ScrollPercent(scrollTop) >= 88
    /\ Emitted = Reached(ScrollPercent(scrollTop))
    /\ Len(log) = Cardinality(Emitted)

(***************************************************************************)
(* The form tracker: properties of SpecForm.                               *)
(***************************************************************************)
NamedNonPassword(field) == field.name # "" /\ field.type # "password"

\* the strings of a form_submitted event
SubmitStrings(props) ==
    {props.formId, props.formName, props.formAction, props.formMethod}
      \cup {props.fields[i].name : i \in 1..Len(props.fields)}
      \cup {props.fields[i].type : i \in 1..Len(props.fields)}

\* the event of the latest submit, checked against the form
SubmitEmitsFormSubmitted ==
    (lastDom.type = "submit" /\ listeners["submit"] = 1) =>
        /\ Len(Latest) = 1
        /\ Latest[1].name = "form_submitted"
        /\ LET props == Latest[1].props
               named == SelectSeq(form.elements, NamedNonPassword)
           IN /\ DOMAIN props = {"formId", "formName", "formAction", "formMethod",
                                 "fieldCount", "fields"}
              /\ props.fieldCount = Len(form.elements)
              /\ Len(props.fields) = Len(named)
              /\ \A i \in 1..Len(named) :
                    props.fields[i] = [name |-> named[i].name, type |-> named[i].type]
              /\ props.formId = (IF form.id = "" THEN "unknown" ELSE form.id)
              /\ props.formName = (IF form.name = "" THEN "unknown" ELSE form.name)
              /\ \A j \in 1..Len(form.elements) :
                    form.elements[j].value \notin SubmitStrings(props)

\* C9: the submission of a form emits one form_submitted event whose
\* fields are the {name, type} pairs of the form's elements that have a
\* name and are not of type password, in the order of the elements, whose
\* fieldCount is the number of all elements, whose formId and formName are
\* "unknown" when the form has none, and which holds no value of a field.
FormSubmitted == [][dispatched' # dispatched => SubmitEmitsFormSubmitted']_vars

\* Scenario C: a form without a name, with the fields name, email and
\* password, is submitted
FormSubmittedWitness ==
    /\ lastDom.type = "submit"
    /\ form = SignupForm
    /\ Len(Latest) = 1
    /\ Latest[1].props.formId = "signup"
    /\ Latest[1].props.formName = "unknown"
    /\ Latest[1].props.fieldCount = 3
    /\ Latest[1].props.fields = << [name |-> "name", type |-> "text"],
                                   [name |-> "email", type |-> "email"] >>

(***************************************************************************)
(* Password fields: properties of SpecPassword.                            *)
(***************************************************************************)
\* values a password field could hold instead
OtherValues == {"", "hunter2", "s3cret"}

\* the document and the form with the value v in every password field
RECURSIVE ScrubFrom(_, _, _)
ScrubFrom(d, v, n) ==
    IF n \notin DOMAIN d THEN d
    ELSE Then(IF d[n].type = "password" THEN [d EXCEPT ![n].value = v] ELSE d,
              LAMBDA e : ScrubFrom(e, v, n + 1))

Scrub(d, v) == ScrubFrom(d, v, 0)

ScrubForm(f, v) ==
    [f EXCEPT !.elements =
        [j \in 1..Len(f.elements) |->
            IF f.elements[j].type = "password"
            THEN [f.elements[j] EXCEPT !.value = v] ELSE f.elements[j]]]

\* the events of the latest click, focus or submit hold no password
PasswordUnobserved ==
    /\ (lastDom.type = "click" /\ dom[lastDom.target].type = "password") =>
          \A i \in 1..Len(Latest) :
             LET props == Latest[i].props IN
             /\ "elementValue" \notin DOMAIN props
             /\ dom[lastDom.target].value # "" =>
                   \A k \in DOMAIN props : props[k] # dom[lastDom.target].value
    /\ (lastDom.type = "focus" /\ dom[lastDom.target].type = "password") =>
          \A i \in 1..Len(Latest) :
             LET props == Latest[i].props IN
             /\ DOMAIN props = {"fieldId", "fieldName", "fieldType", "formId"}
             /\ dom[lastDom.target].value # "" =>
                   \A k \in DOMAIN props : props[k] # dom[lastDom.target].value
    /\ lastDom.type = "submit" =>
          \A i \in 1..Len(Latest) :
             LET props == Latest[i].props IN
             /\ \A j \in 1..Len(props.fields) : props.fields[j].type # "password"
             /\ Len(props.fields)
                  = Cardinality({j \in 1..Len(form.elements) :
                                    NamedNonPassword(form.elements[j])})
             /\ \A j \in 1..Len(form.elements) :
                   form.elements[j].type = "password"
                     => form.elements[j].value \notin SubmitStrings(props) \ {""}
    /\ \A v \in OtherValues : \A d \in {Scrub(dom, v)} : \A f \in {ScrubForm(form, v)} :
          /\ lastDom.type = "click" =>
                Latest = Times(ClickListener(d, lastDom.target, config),
                               listeners["click"])
          /\ lastDom.type = "focus" =>
                /\ FieldId(d, lastDom.target) = FieldId(dom, lastDom.target)
                /\ Latest \in {<<>>, Times(FocusEvent(d, lastDom.target),
                                           listeners["focus"])}
          /\ lastDom.type = "submit" =>
                Latest = Times(SubmitListener(f), listeners["submit"])

\* C8: the event of a click or a focus on a field of type password has no
\* elementValue and holds the field's value nowhere, the fields of a
\* form_submitted event have no entry for a field of type password, and
\* the events emitted are the ones the same page would emit with any other
\* value in its password fields.
PasswordPrivacy == [][dispatched' # dispatched => PasswordUnobserved']_vars

\* a click on a password field that holds a value
PasswordPrivacyWitness ==
    /\ lastDom = [type |-> "click", target |-> Probe]
    /\ dom[Probe].type = "password"
    /\ dom[Probe].value = "hunter2"
    /\ Len(Latest) = 1
    /\ Latest[1].props.inputType = "password"

(***************************************************************************)
(* The click tracker: properties of SpecClick.                             *)
(***************************************************************************)
\* the event of the latest click, checked against its target
ClickEmitsClassified ==
    (lastDom.type = "click" /\ listeners["click"] = 1
       /\ dom[lastDom.target].nodeType = 1) =>
        LET el == dom[lastDom.target] IN
        /\ Len(Latest) = 1
        /\ Latest[1].name =
              (IF el.tagName \in {"BUTTON", "button"} THEN "button_clicked"
               ELSE IF el.tagName \in {"A", "a"} THEN "link_clicked"
               ELSE IF el.role = "button" THEN "button_clicked"
               ELSE "element_clicked")
        /\ Latest[1].name = "link_clicked" =>
              /\ el.tagName \in {"A", "a"}
              /\ Latest[1].props.href = el.href
              /\ Latest[1].props.target = el.target
        /\ Latest[1].name # "link_clicked" =>
              {"href", "target"} \cap DOMAIN Latest[1].props = {}

\* C10: a click on an element emits exactly one event, named by the first
\* of these that applies: the tag is button (button_clicked), the tag is a
\* (link_clicked, with href and target), the role attribute is "button"
\* (button_clicked), otherwise element_clicked; href and target are
\* attached to link_clicked only.
ClickClassification == [][dispatched' # dispatched => ClickEmitsClassified']_vars

\* a click on an anchor whose role is "button"
ClickClassificationWitness ==
    /\ lastDom = [type |-> "click", target |-> 7]
    /\ dom[7].tagName = "A"
    /\ dom[7].role = "button"
    /\ Len(Latest) = 1
    /\ Latest[1].name = "link_clicked"
    /\ Latest[1].props.href = dom[7].href

(***************************************************************************)
(* Fault boundaries: properties of SpecFault.                              *)
(***************************************************************************)
\* C11: no exception leaves a listener or a timer callback of a tracker,
\* whatever the event and even when the sink's track throws.
FaultBoundary == uncaught = 0

\* the session state of the trackers
sessionVars == <<gateVars, scrollVars, otherVars, older>>

\* C12: a click whose handling throws (the target has no tag name, or track
\* throws) is caught by each click listener: it emits nothing, lets no
\* exception out and changes no session state; a click whose handling does
\* not throw emits one event, whatever clicks failed before it.
ClickRecovery ==
    [][(dispatched' # dispatched /\ lastDom'.type = "click") =>
          IF ClickThrows(dom, lastDom'.target)
          THEN /\ log' = log
               /\ uncaught' = uncaught
               /\ caught' = caught + listeners["click"]
               /\ sessionVars' = sessionVars
          ELSE /\ Len(log') = Len(log) + listeners["click"]
               /\ <<uncaught, caught>>' = <<uncaught, caught>>
               /\ sessionVars' = sessionVars]_vars

\* a click was caught, and the click after it emitted its event
ClickRecoveryWitness ==
    /\ caught = 1
    /\ uncaught = 0
    /\ dispatched = 2
    /\ lastDom = [type |-> "click", target |-> 9]
    /\ Len(Latest) = 1
    /\ Latest[1].name = "button_clicked"

(***************************************************************************)
(* The toggles: properties of SpecToggle.                                  *)
(***************************************************************************)
\* the event types a tracker listens to and the event names it emits
TrackerTypes(k) ==
    CASE k = "trackClicks"      -> {"click"}
      [] k = "trackForms"       -> {"submit"}
      [] k = "trackScroll"      -> {"scroll"}
      [] k = "trackErrors"      -> {"error", "unhandledrejection"}
      [] k = "trackPerformance" -> {"load"}
      [] k = "trackVisibility"  -> {"visibilitychange"}

TrackerNames(k) ==
    CASE k = "trackClicks"      -> {"button_clicked", "link_clicked", "element_clicked"}
      [] k = "trackForms"       -> {"form_submitted"}
      [] k = "trackScroll"      -> {"scroll_depth"}
      [] k = "trackErrors"      -> {"javascript_error", "promise_rejection"}
      [] k = "trackPerformance" -> {"page_performance"}
      [] k = "trackVisibility"  -> {"page_hidden", "page_visible"}

\* C13: a tracker whose toggle start() was given as false has no listener
\* and none of its event names is emitted; once tracking is initialized, a
\* tracker whose toggle was not given, or was given as true, has its
\* listener registered.
ToggleGating ==
    \A k \in Toggles :
        /\ (k \in DOMAIN given /\ ~given[k]) =>
              /\ \A t \in TrackerTypes(k) : listeners[t] = 0
              /\ \A i \in 1..Len(log) : log[i].name \notin TrackerNames(k)
        /\ (initCalls > 0 /\ (k \notin DOMAIN given \/ given[k])) =>
              \A t \in TrackerTypes(k) : listeners[t] = 1

\* start({trackClicks: false}), then a click and a submit: only the submit
\* is tracked
ToggleGatingWitness ==
    /\ given = [trackClicks |-> FALSE]
    /\ dispatched = 2
    /\ lastDom.type = "submit"
    /\ listeners["submit"] = 1
    /\ Len(log) = 1
    /\ log[1].name = "form_submitted"

(***************************************************************************)
(* The focus tracker: properties of SpecFocus.                             *)
(***************************************************************************)
\* the identifier of an element: its id, else its name, else "unknown"
Identifier(el) ==
    IF el.id \notin {"", Null} THEN el.id
    ELSE IF el.name \notin {"", Null} THEN el.name
    ELSE "unknown"

\* the identifiers of the events emitted so far
Focused == {log[i].props.fieldId : i \in 1..Len(log)}

\* C14: form_field_focused is emitted at most once per field identifier
\* (id, else name, else "unknown"): a focus on an input, textarea or select
\* emits the event iff no earlier focus had the same identifier, and a
\* focus on another tag emits nothing.
FocusOnce ==
    /\ [](\A i, j \in 1..Len(log) :
             /\ log[i].name = "form_field_focused"
             /\ i # j => log[i].props.fieldId # log[j].props.fieldId)
    /\ [][(dispatched' # dispatched /\ listeners["focus"] = 1) =>
            LET el == dom[lastDom'.target] IN
            IF el.tagName \in {"INPUT", "TEXTAREA", "SELECT"}
               /\ Identifier(el) \notin Focused
            THEN /\ Len(log') = Len(log) + 1
                 /\ log'[Len(log')].props.fieldId = Identifier(el)
                 /\ SubSeq(log', 1, Len(log)) = log
            ELSE log' = log]_vars

\* two fields with neither id nor name were focused, and the button: one
\* event, with the identifier "unknown"
FocusOnceWitness ==
    /\ dom[Probe].id = "" /\ dom[Probe].name = ""
    /\ dom[6].id = "" /\ dom[6].name = ""
    /\ dispatched = 3
    /\ lastDom = [type |-> "focus", target |-> 6]
    /\ Len(log) = 1
    /\ log[1].props.fieldId = "unknown"
    /\ log[1].props.fieldType = "text"

(***************************************************************************)
(* The structural path: properties of SpecPath.                            *)
(***************************************************************************)
\* the id-shortcut form of a path
IdShortcut(x) == "//*[@id=\"" \o x \o "\"]"

\* C15: the xpath of the event of a click on an element with a non-empty
\* id x is the id-shortcut form of x, wherever the element is in the tree:
\* the body element and a detached element included.
IdShortcutPath ==
    [][(dispatched' # dispatched /\ listeners["click"] = 1
          /\ dom[lastDom'.target].id \notin {"", Null}) =>
            /\ Len(Latest') = 1
            /\ Latest'[1].props.xpath = IdShortcut(dom[lastDom'.target].id)
            /\ Latest'[1].props.elementId = dom[lastDom'.target].id]_vars

\* a click on the body element, which has the id "x"
IdShortcutPathWitness ==
    /\ lastDom = [type |-> "click", target |-> Body]
    /\ dom[Body].id = "x"
    /\ Len(Latest) = 1
    /\ Latest[1].props.xpath = "//*[@id=\"x\"]"

(***************************************************************************)
(* The visibility clock: properties of SpecVisibility.                     *)
(***************************************************************************)
\* C16: the clock is set to the current time when the tracker is wired and
\* at each transition to visible, which emits page_visible without
\* properties; a transition to hidden leaves the clock and emits
\* page_hidden with the rounded seconds since the clock; nothing else
\* changes the clock, so earlier visible intervals are never added up.
VisibilityClockRule ==
    /\ [][initCalls' # initCalls => (config'.trackVisibility => startTime' = now)]_vars
    /\ [][(dispatched' # dispatched /\ listeners["visibilitychange"] = 1) =>
            IF hidden'
            THEN /\ startTime' = startTime
                 /\ Latest' = << [name |-> "page_hidden",
                                  props |-> [timeOnPage |->
                                                (now - startTime + 500) \div 1000]] >>
            ELSE /\ startTime' = now
                 /\ Latest' = << [name |-> "page_visible", props |-> NoData] >>]_vars
    /\ [][(initCalls' = initCalls /\ dispatched' = dispatched)
            => startTime' = startTime]_vars

\* Scenario E, after an earlier visible interval: hidden after 0.5 s,
\* visible again 0.499 s later, hidden 125 s after that
VisibilityClockRuleWitness ==
    /\ dispatched = 3
    /\ hidden
    /\ now = 125999
    /\ startTime = 999
    /\ Len(log) = 3
    /\ log[1].props.timeOnPage = 1
    /\ log[2].name = "page_visible"
    /\ log[3] = [name |-> "page_hidden", props |-> [timeOnPage |-> 125]]

(***************************************************************************)
(* The performance tracker: properties of Spec.                            *)
(***************************************************************************)
\* the page_performance events emitted so far
PerformanceEvents == {i \in 1..Len(log) : log[i].name = "page_performance"}

\* C17: with trackPerformance enabled and performance timing supported,
\* whatever the order of start(), the sink becoming available and the load
\* event, page_performance is emitted never before the load event, never
\* more than once, and exactly once when tracking is initialized, the page
\* has loaded and no deferred callback is pending.
PerformanceOnce ==
    /\ Cardinality(PerformanceEvents) <= 1
    /\ PerformanceEvents # {} => loaded
    /\ (config.trackPerformance /\ perfSupported /\ initCalls > 0 /\ loaded
          /\ perfTimer = 0)
         => Cardinality(PerformanceEvents) = 1

\* the event name a dispatch of each type emits in Spec when its tracker
\* is wired
EmittedBy(type, target, h) ==
    CASE type = "click" /\ target = Probe -> "element_clicked"
      [] type = "click" /\ target = 9     -> "button_clicked"
      [] type = "submit"                  -> "form_submitted"
      [] type = "error"                   -> "javascript_error"
      [] type = "unhandledrejection"      -> "promise_rejection"
      [] type = "visibilitychange"        -> IF h THEN "page_hidden"
                                             ELSE "page_visible"
      [] type = "focus"                   -> "form_field_focused"

\* the toggle of the tracker that listens to each type
Enabled(type) ==
    CASE type = "click"              -> config.trackClicks
      [] type = "submit"             -> config.trackForms
      [] type \in {"error", "unhandledrejection"} -> config.trackErrors
      [] type = "visibilitychange"   -> config.trackVisibility
      [] type = "focus"              -> TRUE

\* C18: without performance timing, no load listener is registered, no
\* callback is deferred, page_performance is never emitted and no exception
\* leaves the tracker; every other tracker is wired as its toggle says and
\* each click, submit, error, rejection, visibility change and first focus
\* emits its event.
CapabilityGap ==
    /\ [](~perfSupported =>
             /\ listeners["load"] = 0
             /\ perfTimer = 0
             /\ PerformanceEvents = {}
             /\ uncaught = 0
             /\ initCalls > 0 => EnabledOnce)
    /\ [][(~perfSupported /\ dispatched' # dispatched
             /\ lastDom'.type \notin {"load", "scroll"}) =>
            IF initCalls > 0 /\ Enabled(lastDom'.type)
               /\ (lastDom'.type = "focus" => trackedFields = {})
            THEN /\ Len(Latest') = 1
                 /\ Latest'[1].name = EmittedBy(lastDom'.type, lastDom'.target, hidden')
            ELSE Latest' = <<>>]_vars

\* without performance timing and with trackPerformance enabled, the page
\* loaded and a click was tracked
CapabilityGapWitness ==
    /\ ~perfSupported
    /\ config.trackPerformance
    /\ initCalls = 1
    /\ loaded
    /\ lastDom = [type |-> "click", target |-> 9]
    /\ Len(Latest) = 1

(***************************************************************************)
(* Several calls of start(): properties of SpecMulti.                      *)
(***************************************************************************)
\* C19: however many times start() is called, each tracker's listener is
\* registered at most once, and one click, submit, focus or visibility
\* change produces at most one tracking event.
StartIdempotent ==
    /\ \A t \in EventTypes : listeners[t] <= 1
    /\ lastDom.type \in {"click", "submit", "focus", "visibilitychange"}
         => Len(Latest) <= 1

\* C20: once the trackers are wired no step changes the captureText,
\* captureAttributes or debounceScroll the listeners read, and every call
\* of start() merges its argument over the defaults, which it leaves as
\* they were.
ConfigImmutable ==
    /\ [][initCalls > 0 =>
            /\ config'.captureText = config.captureText
            /\ config'.captureAttributes = config.captureAttributes
            /\ config'.debounceScroll = config.debounceScroll]_vars
    /\ [][started' # started => config' = Merge(DefaultConfig, given')]_vars

(***************************************************************************)
(* Length limits: properties of SpecLength.                                *)
(***************************************************************************)
\* the properties of the events sent so far
SentProps == {log[i].props : i \in 1..Len(log)}

\* C21: in every event sent, elementText has at most 100 characters,
\* elementValue at most 50 and the stack of a javascript_error at most 500,
\* however long the text, the value and the stack of the input are; a
\* javascript_error has a stack exactly when the error has one.
LengthBounds ==
    /\ \A p \in SentProps :
        /\ "elementText" \in DOMAIN p => Len(p.elementText) <= 100
        /\ "elementValue" \in DOMAIN p => Len(p.elementValue) <= 50
        /\ "stack" \in DOMAIN p => Len(p.stack) <= 500
    /\ \A i \in 1..Len(log) :
        log[i].name = "javascript_error" =>
            ("stack" \in DOMAIN log[i].props <=> log[i].props.line > 0)

\* a text, a value and a stack longer than their limits have been sent, cut
\* to the limits
LengthBoundsWitness ==
    /\ Len(Trim(dom[Probe].textContent)) > 100
    /\ Len(dom[Probe].value) > 50
    /\ \E p \in SentProps :
        /\ "elementText" \in DOMAIN p /\ Len(p.elementText) = 100
        /\ "elementValue" \in DOMAIN p /\ Len(p.elementValue) = 50
    /\ \E p \in SentProps : "stack" \in DOMAIN p /\ p.line > 500 /\ Len(p.stack) = 500

(***************************************************************************)
(* The readiness gate, continued: properties of Spec.                      *)
(***************************************************************************)
\* C22: the gate moves one way: from Ready or TimedOut it never polls again,
\* the poll counter stands still once the interval is cleared (no poll runs
\* after the one that succeeded or timed out), and one call of start() never
\* both initializes the trackers and reports the timeout.
OneDirectional ==
    /\ [][(Ready \/ TimedOut) => ~Polling']_vars
    /\ [][~Polling => (attempts' = attempts /\ (Ready => initCalls' = initCalls))]_vars
    /\ [][~Polling' => (Ready => Ready') /\ (TimedOut => TimedOut')]_vars
    /\ [](~(initCalls > 0 /\ errorLogs > 0))

\* the gate succeeded in one of its polls, and the page went on to be used
OneDirectionalWitness ==
    /\ Ready
    /\ attempts \in 1..(maxAttempts - 1)
    /\ sink
    /\ lastDom.type = "visibilitychange"

(***************************************************************************)
(* Scenario A: a property of SpecClick.                                    *)
(***************************************************************************)
\* the event of the latest click, when it was a click on the button "cta"
\* under the default configuration
ScenarioAEvent ==
    (lastDom = [type |-> "click", target |-> 9] /\ listeners["click"] = 1
       /\ config = DefaultConfig) =>
        /\ Len(Latest) = 1
        /\ Latest[1].name = "button_clicked"
        /\ Latest[1].props =
              [ elementType |-> "button", page |-> "/signup", elementId |-> "cta",
                elementClasses |-> "btn primary", elementText |-> "Go",
                gaId |-> "page", data_action |-> "signup", inputType |-> "submit",
                xpath |-> "//*[@id=\"cta\"]" ]

\* C23: a click on the button with id "cta", classes "btn primary", text
\* "Go" and data-action="signup", under the default configuration, sends one
\* button_clicked event with elementType "button", elementId "cta",
\* elementClasses "btn primary", elementText "Go", data_action "signup" and
\* the id-shortcut of "cta" as xpath; its other keys are those the
\* descriptor rules give a button inside a marked container: page, the
\* gaId of the container and inputType "submit".
ScenarioA == [][dispatched' # dispatched => ScenarioAEvent']_vars

\* the button of the scenario has been clicked under the default
\* configuration and its event was sent
ScenarioAWitness ==
    /\ lastDom = [type |-> "click", target |-> 9]
    /\ config = DefaultConfig
    /\ dom[9].id = "cta" /\ dom[9].tagName = "BUTTON"
    /\ Len(Latest) = 1
    /\ Latest[1].props.data_action = "signup"

(***************************************************************************)
(* Termination of the gate: properties of SpecGate.                        *)
(***************************************************************************)
\* C24: the poll counter never exceeds 100, so at most 100 polls run after
\* a call of start() that found the sink absent, and when the timer fires
\* fairly a started gate eventually is Ready or TimedOut.
GateTerminates ==
    /\ [](attempts <= maxAttempts)
    /\ [][attempts' # attempts => (Polling /\ attempts' = attempts + 1)]_vars
    /\ (started > 0) ~> (Ready \/ TimedOut)

\* the sink never appeared and the hundredth poll stopped the gate
GateTerminatesWitness ==
    /\ TimedOut
    /\ ~sink
    /\ attempts = maxAttempts
    /\ errorLogs = 1

(***************************************************************************)
(* The marker climb: properties of SpecMarker.                             *)
(***************************************************************************)
\* the k-th ancestor of n by parentElement (-1 when the chain ends before)
RECURSIVE Up(_, _, _)
Up(d, n, k) ==
    IF k = 0 THEN n
    ELSE Then(Up(d, n, k - 1), LAMBDA u : IF u < 0 THEN -1 ELSE ParentElement(d, u))

\* node m exists and carries a non-empty marker
HasMarker(d, m) ==
    m >= 0 /\ "gaId" \in DOMAIN d[m].dataset /\ d[m].dataset["gaId"] # ""

\* the event of the latest click, checked against the markers of the page
MarkerClimbEvent ==
    (lastDom.type = "click" /\ listeners["click"] = 1) =>
        LET n == lastDom.target
            near == {k \in 0..4 : \E m \in {Up(dom, n, k)} : HasMarker(dom, m)}
        IN  /\ Len(Latest) = 1
            /\ IF near = {} THEN "gaId" \notin DOMAIN Latest[1].props
               ELSE LET k == CHOOSE j \in near : \A i \in near : j <= i
                    IN  Latest[1].props.gaId = dom[Up(dom, n, k)].dataset["gaId"]

EndsWith(s, t) == Len(s) >= Len(t) /\ SubSeq(s, Len(s) - Len(t) + 1, Len(s)) = t

\* the element siblings before n, under the parent of n, with the tag of n
SameTagBefore(d, n) ==
    { m \in Nodes : /\ m < n
                    /\ d[m].parent = d[n].parent
                    /\ d[m].nodeType = 1
                    /\ d[m].tagName = d[n].tagName }

\* the event of the latest click, when its target has no id, is not the
\* body and has a parent
SiblingIndexEvent ==
    (lastDom.type = "click" /\ listeners["click"] = 1
       /\ dom[lastDom.target].id = "" /\ lastDom.target # Body
       /\ dom[lastDom.target].parent >= 0) =>
        /\ Len(Latest) = 1
        /\ EndsWith(Latest[1].props.xpath,
                    "/" \o ToLowerCase(dom[lastDom.target].tagName) \o "["
                      \o ToString(1 + Cardinality(SameTagBefore(dom, lastDom.target)))
                      \o "]")

\* C26: the path of an element without id, other than the body, ends with
\* /tagname[k]: tagname is the lower-cased tag of the element and k is one
\* more than the number of element siblings before it under its parent that
\* have its tag; text nodes, siblings with another tag and siblings after it
\* do not count.
SiblingIndex == [][dispatched' # dispatched => SiblingIndexEvent']_vars

\* a click on an element that follows a text node, an element of another
\* tag and an element of its own tag, and precedes one of its own tag
SiblingIndexWitness ==
    /\ lastDom = [type |-> "click", target |-> Probe]
    /\ Len(Latest) = 1
    /\ dom[6].nodeType = 3
    /\ dom[7].tagName = "A" /\ dom[Probe].tagName = "A" /\ dom[10].tagName = "A"
    /\ EndsWith(Latest[1].props.xpath, "/a[2]")

\* the path of node n by the three bases: the id-shortcut of a node with an
\* id, /html/body for the body, the empty path for a node without parent,
\* and otherwise the path of the parent followed by the segment of n
RECURSIVE PathByBases(_, _)
PathByBases(d, n) ==
    IF d[n].id \notin {"", Null} THEN IdShortcut(d[n].id)
    ELSE IF n = Body THEN "/html/body"
    ELSE IF d[n].parent < 0 THEN ""
    ELSE PathByBases(d, d[n].parent)
           \o "/" \o ToLowerCase(d[n].tagName) \o "["
           \o ToString(1 + Cardinality(SameTagBefore(d, n))) \o "]"

\* the event of the latest click, checked against the bases
PathBasesEvent ==
    (lastDom.type = "click" /\ listeners["click"] = 1) =>
        /\ Len(Latest) = 1
        /\ Latest[1].props.xpath = PathByBases(dom, lastDom.target)
        /\ caught = 0

\* C27: the path computation ends on every tree of the model, without an
\* exception, and its result starts at the nearest of: an ancestor (or the
\* element) with an id, whose id-shortcut begins the path; the body, whose
\* path is /html/body; a node without parent, whose path is empty.  The
\* segments of the nodes below that one follow.
PathBases == [][dispatched' # dispatched => PathBasesEvent']_vars

\* a click on the deepest element of a page whose section has lost its
\* parent: the path starts at the section, with nothing before it
PathBasesWitness ==
    /\ lastDom = [type |-> "click", target |-> 15]
    /\ dom[10].parent = -1 /\ dom[10].id = ""
    /\ Len(Latest) = 1
    /\ Latest[1].props.xpath = "/div[1]/div[1]/div[1]/div[1]/span[1]"

(***************************************************************************)
(* The keys of the descriptor: properties of SpecDescriptor, in which      *)
(* every event is that of a click on the element Probe.                    *)
(***************************************************************************)
\* the class names of a class attribute: its pieces between white space
RECURSIVE ClassListFrom(_, _)
ClassListFrom(s, piece) ==
    IF Len(s) = 0 THEN (IF piece = "" THEN <<>> ELSE <<piece>>)
    ELSE IF SubSeq(s, 1, 1) \in Whitespace
    THEN (IF piece = "" THEN <<>> ELSE <<piece>>) \o ClassListFrom(Tail(s), "")
    ELSE ClassListFrom(Tail(s), piece \o SubSeq(s, 1, 1))

ClassList(s) == ClassListFrom(s, "")

\* C28: elementClasses is the class list of the element, its names joined
\* by one space each with no white space before, after or inside them, and
\* an event has no elementClasses when the class list is empty: when the
\* class attribute is empty or holds white space only.
ClassesNormalized ==
    \A p \in SentProps :
        dom[Probe].className # SVGAnimatedString =>
            IF ClassList(dom[Probe].className) = <<>>
            THEN "elementClasses" \notin DOMAIN p
            ELSE /\ "elementClasses" \in DOMAIN p
                 /\ p.elementClasses = Join(ClassList(dom[Probe].className))

\* C29: every descriptor has elementType (the lower-cased tag), page and
\* xpath; it has elementId exactly when the id is non-empty, elementName
\* exactly when the element has a non-empty name, inputType exactly when it
\* has a non-empty type, and elementValue exactly when the value is
\* non-empty and the type is not "password"; neither the type, nor a data
\* attribute of any name, nor href and target take the place of elementType.
KeyPresence ==
    \A p \in SentProps :
        LET el == dom[Probe] IN
        /\ {"elementType", "page", "xpath"} \subseteq DOMAIN p
        /\ p.elementType = (IF el.tagName = "INPUT" THEN "input"
                            ELSE IF el.tagName = "A" THEN "a"
                            ELSE IF el.tagName = "DIV" THEN "div" ELSE "button")
        /\ p.page = "/signup"
        /\ "elementId" \in DOMAIN p <=> el.id # ""
        /\ "elementName" \in DOMAIN p <=> el.name \notin {Null, ""}
        /\ "inputType" \in DOMAIN p <=> el.type \notin {Null, ""}
        /\ "elementValue" \in DOMAIN p <=>
              (el.value \notin {Null, ""} /\ el.type # "password")
        /\ "elementId" \in DOMAIN p => p.elementId = el.id
        /\ "elementName" \in DOMAIN p => p.elementName = el.name
        /\ "inputType" \in DOMAIN p => p.inputType = el.type

\* the event of a click on a link with a type, a value, and data attributes
\* named elementType and inputType
KeyPresenceWitness ==
    /\ lastDom = [type |-> "click", target |-> Probe]
    /\ dom[Probe].tagName = "A" /\ dom[Probe].type = "text"
    /\ dom[Probe].value = "secret" /\ dom[Probe].id = ""
    /\ \E p \in SentProps :
        /\ p.elementType = "a" /\ p.inputType = "text"
        /\ "data_elementType" \in DOMAIN p /\ p.data_elementType = "fake"
        /\ "href" \in DOMAIN p /\ "elementId" \notin DOMAIN p

(***************************************************************************)
(* The capture phase: properties of SpecClick, in which the page may add   *)
(* handlers of its own that call stopPropagation.                          *)
(***************************************************************************)
\* C30: the click, submit and focus listeners are registered for the capture
\* phase: a click whose handlers on the page call stopPropagation at the
\* target or while the event bubbles is still observed, and its one event
\* is sent before those handlers run; the same holds for a submit, and for
\* a focus on a form field not focused before.
CapturePhase ==
    [][(dispatched' # dispatched /\ pageHandler # "none") =>
          /\ (lastDom'.type = "click" /\ listeners["click"] = 1) =>
                (Len(Latest') = 1 /\ handlerOrder' = "after")
          /\ (lastDom'.type = "submit" /\ listeners["submit"] = 1) =>
                (Len(Latest') = 1 /\ handlerOrder' = "after")
          /\ (lastDom'.type = "focus" /\ listeners["focus"] = 1
                /\ dom[lastDom'.target].tagName = "INPUT"
                /\ trackedFields = {}) =>
                (Len(Latest') = 1 /\ handlerOrder' = "after")]_vars

\* a click that a handler of the page stopped, its event sent before
CapturePhaseWitness ==
    /\ pageHandler = "stops"
    /\ lastDom.type = "click"
    /\ handlerOrder = "after"
    /\ Len(Latest) = 1
    /\ Latest[1].name \in {"button_clicked", "link_clicked", "element_clicked"}

(***************************************************************************)
(* The state the trackers keep: properties of SpecSession.                 *)
(***************************************************************************)
\* the latest step ran the listeners of a browser event of one of the types
Handled(types) == dispatched' # dispatched /\ lastDom'.type \in types

\* C31: the trackers share no mutable state.  A scroll event or an expiry
\* of the debounce timer changes only the scroll maximum, the milestone set
\* and the debounce timer; a focus event changes only the set of tracked
\* fields; a visibility change changes only the visibility clock; a click,
\* a submit, an error, a rejection, a load event and its deferred callback
\* change none of these; and none of them writes the config.
SessionFrame ==
    /\ [][(Handled({"scroll"}) \/ computations' # computations)
            => UNCHANGED <<trackedFields, startTime, config>>]_vars
    /\ [][Handled({"scroll"}) => UNCHANGED <<maxScroll, tracked>>]_vars
    /\ [][computations' # computations => UNCHANGED scrollTimer]_vars
    /\ [][Handled({"focus"})
            => UNCHANGED <<maxScroll, tracked, scrollTimer, startTime, config>>]_vars
    /\ [][Handled({"visibilitychange"})
            => UNCHANGED <<maxScroll, tracked, scrollTimer, trackedFields, config>>]_vars
    /\ [][(Handled({"click", "submit", "error", "unhandledrejection", "load"})
             \/ perfTimer' < perfTimer)
            => UNCHANGED <<maxScroll, tracked, scrollTimer, trackedFields, startTime,
                           config>>]_vars

\* every tracker has written its own state: the page was scrolled to the
\* end, a field was focused, and the page was hidden and shown again half a
\* second after it was opened
SessionFrameWitness ==
    /\ maxScroll = 100
    /\ tracked = MilestoneSet
    /\ scrollTimer # 0
    /\ trackedFields = {"email"}
    /\ startTime = 500
    /\ lastDom.type = "visibilitychange"
    /\ config = DefaultConfig

(***************************************************************************)
(* The focus tracker's wiring: properties of SpecToggle.                   *)
(***************************************************************************)
\* every toggle of the configuration is false
AllTogglesOff == \A k \in Toggles : ~config[k]

\* C34: once tracking is initialized the focus listener is registered,
\* whatever the six toggles, and the first focus on a form field emits
\* form_field_focused; with all six toggles false the focus listener is the
\* only one registered and form_field_focused the only event name emitted.
FocusWiring ==
    /\ [](Ready => listeners["focus"] = 1)
    /\ []((Ready /\ AllTogglesOff)
            => /\ \A t \in EventTypes \ {"focus"} : listeners[t] = 0
               /\ \A i \in 1..Len(log) : log[i].name = "form_field_focused")
    /\ [][(Handled({"focus"}) /\ Ready /\ trackedFields = {})
            => /\ Len(log') = Len(log) + 1
               /\ log'[Len(log')].name = "form_field_focused"]_vars

\* start() with the six toggles false, then a focus on the email field and
\* a submit: only the focus is tracked
FocusWiringWitness ==
    /\ Ready
    /\ DOMAIN given = Toggles
    /\ AllTogglesOff
    /\ dispatched = 2
    /\ lastDom.type = "submit"
    /\ Len(log) = 1
    /\ log[1].name = "form_field_focused"
    /\ log[1].props.fieldId = "email"

(***************************************************************************)
(* The data attributes of the descriptor: properties of SpecMarker.        *)
(***************************************************************************)
\* the key of the descriptor is one of the data_ keys
IsDataKey(key) == Len(key) >= 5 /\ SubSeq(key, 1, 5) = "data_"

\* the event of the latest click, checked against the data attributes of
\* the clicked element and the markers of the page
DataGatingEvent ==
    (lastDom.type = "click" /\ listeners["click"] = 1) =>
        LET n  == lastDom.target
            el == dom[lastDom.target]
            near == {k \in 0..4 : \E m \in {Up(dom, n, k)} : HasMarker(dom, m)}
        IN  /\ Len(Latest) = 1
            /\ \A props \in {Latest[1].props} :
                /\ {x \in DOMAIN props : IsDataKey(x)}
                     = (IF config.captureAttributes
                        THEN {"data_" \o k : k \in DOMAIN el.dataset} ELSE {})
                /\ config.captureAttributes
                     => \A k \in DOMAIN el.dataset : props["data_" \o k] = el.dataset[k]
                /\ "gaId" \in DOMAIN props <=> near # {}
                /\ "gaId" \in DOMAIN props
                     => \E k \in near : props.gaId = dom[Up(dom, n, k)].dataset["gaId"]

====
